---- MODULE Spec2Model ----
(***************************************************************************)
(* Reminder engine of the assistant: the SQLite task store                 *)
(* (tasks_manager.py), the reminder scan run by the scheduler thread and   *)
(* by the manual trigger (scheduler.py, main.py), and the delivery call    *)
(* (message_sender.py).                                                    *)
(*                                                                         *)
(* Two threads touch the store: "sched", the daemon thread started by      *)
(* start_scheduler, and "web", the event loop that serves the endpoints    *)
(* of main.py one request at a time (every endpoint is an async def that   *)
(* calls synchronous code).  Each store method opens its own connection    *)
(* and runs one SQLite transaction, which takes effect atomically at its   *)
(* commit; a method is therefore a call step followed by one transaction   *)
(* step, and a writer waiting for SQLite's write lock is a transaction     *)
(* step that has not happened yet.                                         *)
(***************************************************************************)
EXTENDS Integers, Sequences, FiniteSets, TLC

\* ----------------------------------------------------------------- bounds
MaxTasks == 2
MaxTime == 2
MaxDue == 1
MaxOffset == 1
MaxRows == 2
MaxCreated == 1
TicksPerSecond == 2
MaxLoops == 3

\* ------------------------------------------------------------ value sets
Threads == {"sched", "web"}
Ids == 1..MaxTasks
\* UTC offset of the host's local timezone, in clock units
HostOffsets == (0 - MaxOffset)..MaxOffset
\* SQL NULL / Python None for an integer column, and a present value
None == <<>>
Some(v) == <<v>>
\* the last call that returned: its method m, whether it ended in a storage
\* error, and the value it returned (records are compared field by field in
\* the order the field names first occur, so m is named before ret, whose
\* values differ in kind from one method to another)
NoCall == [m |-> "none", err |-> FALSE, ret |-> "None"]
Call(m, r, e) == [m |-> m, err |-> e, ret |-> r]
\* due_date strings add_task can be given: None, an ISO string with a UTC
\* offset ("aware", what _parse_date_nlp produces), an ISO string without
\* one ("naive", as in test_components.py), a string fromisoformat rejects
NoDate == [kind |-> "none", wall |-> 0]
DueDates ==
    {NoDate} \cup {[kind |-> k, wall |-> w] : k \in {"aware", "naive"}, w \in 0..MaxDue}
             \cup {[kind |-> "bad", wall |-> 0]}
\* what _parse_date_nlp returns: None, or isoformat() of a UTC datetime
ParsedDates == {d \in DueDates : d.kind \in {"none", "aware"}}

VARIABLES
    now,        \* true UTC epoch time
    hostOffset, \* UTC offset of the host timezone (process environment)
    tasks,      \* committed rows of table tasks: a function from the ids present
    seq,        \* sqlite_sequence: largest id AUTOINCREMENT ever assigned
    pc,         \* per thread: position inside the running entry point
    arg,        \* per thread: task id of the complete_task call in progress
    due,        \* per thread: due_tasks of the running scan pass
    idx,        \* per thread: position of the scan's for loop in due_tasks
    sent,       \* per thread: sent_count of the running scan pass
    last,       \* the method call that returned in the latest step, if any
    created,    \* ids returned by successful add_task calls, in order
    delivered,  \* per id: number of send_reminder calls that returned True
    trueCount,  \* per id: number of complete_task calls that returned True
    race,       \* the pair of overlapping complete_task calls on one id
    pass,       \* per thread: deliveries of the running scan pass
    lastPass,   \* deliveries of the scan pass that finished last
    byUser,     \* ids a user command has completed or deleted
    scheduler_stop, \* the Event _scheduler_stop is set
    exited,     \* the process has exited
    inp,        \* the argument of a function applied on its own
    out,        \* the value that function returned
    db_path,    \* TasksManager.db_path of the instance the calls are made on
    scheduler_thread, \* the global _scheduler_thread: 0 for None, or a thread
    loop,       \* per thread object made by start_scheduler: where it is in _run_loop
    jobs,       \* number of jobs registered with the schedule module
    ran,        \* number of times the scan ran in the latest run_pending()
    starter,    \* per caller: position inside start_scheduler, thread it made
    lastCall    \* which of start_scheduler, stop_scheduler returned last

\* what no step of a task command or of a scan changes
\* the threads and jobs of the scheduler module
lifecycle == <<scheduler_thread, loop, jobs, ran, starter, lastCall>>

others == <<hostOffset, scheduler_stop, exited, inp, out, db_path, lifecycle>>

vars == <<now, hostOffset, tasks, seq, pc, arg, due, idx, sent,
          last, created, delivered, trueCount, race, pass, lastPass, byUser,
          scheduler_stop, exited, inp, out, db_path, lifecycle>>

\* ------------------------------------------------------- pure functions
Max(S) == CHOOSE x \in S : \A y \in S : y <= x
Range(s) == {s[k] : k \in 1..Len(s)}
Other(t) == CHOOSE u \in Threads : u # t

\* datetime.fromisoformat(due_date.replace("Z", "+00:00")).timestamp():
\* an aware datetime is its own instant; a naive one is read as host local
\* time; anything else raises and leaves due_ts None
IsoTimestamp(d, off) ==
    CASE d.kind = "aware" -> Some(d.wall)
      [] d.kind = "naive" -> Some(d.wall - off)
      [] OTHER -> None

\* add_task without the "if due_date:" guard, a missing date stored as the
\* epoch
DueTsEpochWhenMissing(d, off) == IF d.kind = "none" THEN Some(0) ELSE IsoTimestamp(d, off)

\* add_task: "if due_date:" guards the conversion
DueTs(d, off) == IF d.kind = "none" THEN None ELSE IsoTimestamp(d, off)

\* int(datetime.utcnow().timestamp()): utcnow() is a naive datetime holding
\* the UTC wall clock, and timestamp() reads a naive datetime as local time
UtcNowTimestamp(t, off) == t - off

\* the row add_task inserts (completed DEFAULT 0, completed_at NULL)
NewRow(d, off) ==
    [due_date |-> d, due_ts |-> DueTs(d, off), completed |-> FALSE, completed_at |-> None]

\* the table right after CREATE TABLE
NoRows == [i \in {} |-> NewRow(NoDate, 0)]

\* INTEGER PRIMARY KEY without AUTOINCREMENT: one more than the largest rowid
NextRowidNoAutoincrement(rows, s) ==
    IF DOMAIN rows = {} THEN 1 ELSE Max(DOMAIN rows) + 1

\* INTEGER PRIMARY KEY AUTOINCREMENT: one more than the largest rowid the
\* table has ever held, which sqlite_sequence remembers
NextRowid(rows, s) == Max(DOMAIN rows \cup {s}) + 1

\* UPDATE tasks ... WHERE id = ? (the condition on completed left out)
CompleteMatchesIdOnly(rows, id) == id \in DOMAIN rows

\* the rows complete_task's UPDATE changes: WHERE id = ? AND completed = 0
CompleteMatches(rows, id) == id \in DOMAIN rows /\ ~rows[id].completed

\* SET completed = 1, completed_at = CURRENT_TIMESTAMP, due_ts = NULL (an
\* UPDATE that also takes the completed task's due time away)
CompletedRowClearsDue(row, ts) ==
    [row EXCEPT !.completed = TRUE, !.completed_at = Some(ts), !.due_ts = None]

\* SET completed = 1, completed_at = CURRENT_TIMESTAMP
CompletedRow(row, ts) == [row EXCEPT !.completed = TRUE, !.completed_at = Some(ts)]

\* WHERE due_ts IS NOT NULL AND due_ts < now_ts (the condition on completed
\* left out)
OverdueWhereAnyStatus(rows, t, off) ==
    {i \in DOMAIN rows :
        /\ rows[i].due_ts # None
        /\ rows[i].due_ts[1] < UtcNowTimestamp(t, off)}

\* WHERE completed = 0 AND due_ts IS NOT NULL AND due_ts > now_ts (the
\* comparison turned round)
OverdueWhereNotYetDue(rows, t, off) ==
    {i \in DOMAIN rows :
        /\ ~rows[i].completed
        /\ rows[i].due_ts # None
        /\ rows[i].due_ts[1] > UtcNowTimestamp(t, off)}

\* WHERE completed = 0 AND due_ts IS NOT NULL AND due_ts < now_ts
OverdueWhere(rows, t, off) ==
    {i \in DOMAIN rows :
        /\ ~rows[i].completed
        /\ rows[i].due_ts # None
        /\ rows[i].due_ts[1] < UtcNowTimestamp(t, off)}

\* the SELECT without ORDER BY: the selected rows in any order
InAnyOrder(rows, S) ==
    {s \in [1..Cardinality(S) -> S] :
        \A j, k \in 1..Cardinality(S) : j # k => s[j] # s[k]}

\* ORDER BY due_ts ASC: every listing of the selected rows in ascending
\* due_ts; SQL leaves the order of rows with equal due_ts open
OrderedByDueTs(rows, S) ==
    {s \in [1..Cardinality(S) -> S] :
        /\ \A j, k \in 1..Cardinality(S) : j # k => s[j] # s[k]
        /\ \A j, k \in 1..Cardinality(S) :
              j < k => rows[s[j]].due_ts[1] <= rows[s[k]].due_ts[1]}

\* get_overdue_tasks: the lists the SELECT can return
OverdueLists(rows, t, off) == OrderedByDueTs(rows, OverdueWhere(rows, t, off))

\* --------------------------------------------- SMSHandler._parse_date_nlp
\* Instants and wall clocks count ticks (TicksPerSecond to the second) from
\* 2024-01-15T00:00:00 UTC, resp. from 2024-01-15T00:00:00 on the wall.
Second == TicksPerSecond
Minute == 60 * Second
Hour == 60 * Minute
Day == 24 * Hour

\* USER_TIMEZONE as pytz reads it: zones of a fixed UTC offset, in hours
UserOffsets == {0 - 6, 0, 1}
\* the readings datetime.now(self.tzinfo) can give, whole seconds or not
RefInstants == {h * Hour + f : h \in {5, 12, 29}, f \in 0..(TicksPerSecond - 1)}

\* time_patterns, in list order
TimePatterns ==
    <<"in N minutes", "in N hours", "in N days", "in N seconds",
      "N minutes from now", "N hours from now", "N days from now",
      "N seconds from now", "tomorrow", "today", "next week", "next month">>

\* what dateparser.parse is given to read: a number with a unit, a named
\* relative date, a date and time without zone, nothing it can read, or
\* something it raises on
Units == {"second", "minute", "hour", "day"}
Phrases ==
    [kind : {"offset"}, unit : Units, n : {1, 5}]
    \cup [kind : {"tomorrow", "today", "next week", "next month", "nothing", "raises"}]
    \cup [kind : {"naive"}, wall : {30 * Hour, 47 * Hour + 1}]

\* the number of a numeric fragment when it has so many digits that the date
\* it asks for is beyond what datetime can hold
TooLarge == 999999

UnitTicks(u) ==
    CASE u = "second" -> Second [] u = "minute" -> Minute
      [] u = "hour" -> Hour [] u = "day" -> Day

\* "RELATIVE_BASE": datetime.now(self.tzinfo): the instant, aware, carrying
\* the user's offset
RelativeBaseNaiveUtc(T, tz) == [aware |-> TRUE, t |-> T - tz * Hour, off |-> tz]
RelativeBase(T, tz) == [aware |-> TRUE, t |-> T, off |-> tz]

\* dateparser.parse(phrase, settings): relative phrases are the base moved
\* by the amount, in the base's zone (a month is the 31 days of January
\* here); a date without zone comes back as it is written
LibParse(ph, base) ==
    CASE ph.kind = "offset" /\ ph.n = TooLarge -> None
      [] ph.kind = "offset" -> Some([base EXCEPT !.t = @ + ph.n * UnitTicks(ph.unit)])
      [] ph.kind = "tomorrow" -> Some([base EXCEPT !.t = @ + Day])
      [] ph.kind = "today" -> Some(base)
      [] ph.kind = "next week" -> Some([base EXCEPT !.t = @ + 7 * Day])
      [] ph.kind = "next month" -> Some([base EXCEPT !.t = @ + 31 * Day])
      [] ph.kind = "naive" -> Some([aware |-> FALSE, t |-> ph.wall, off |-> 0])
      [] OTHER -> None

\* the fragment a matching pattern hands to dateparser: match.group(0) for
\* the numeric patterns, the fixed word for the named ones
PatternPhrase(pat, n) ==
    CASE pat \in {"in N minutes", "N minutes from now"} -> [kind |-> "offset", unit |-> "minute", n |-> n]
      [] pat \in {"in N hours", "N hours from now"} -> [kind |-> "offset", unit |-> "hour", n |-> n]
      [] pat \in {"in N days", "N days from now"} -> [kind |-> "offset", unit |-> "day", n |-> n]
      [] pat \in {"in N seconds", "N seconds from now"} -> [kind |-> "offset", unit |-> "second", n |-> n]
      [] OTHER -> [kind |-> pat]

\* a message: what dateparser makes of the whole text, the patterns of
\* time_patterns that match somewhere in it, in the order in which their
\* matches stand in the text, and the number they capture
Texts ==
    [whole : Phrases, found : {<<>>}, n : {1}]
    \cup [whole : {[kind |-> "nothing"]},
          found : {<<pat>> : pat \in Range(TimePatterns)}
                  \cup {<<p, q>> : p, q \in Range(TimePatterns)} ,
          n : {1, 5, TooLarge}]
    \cup [whole : {[kind |-> "naive", wall |-> 30 * Hour]},
          found : {<<"tomorrow">>, <<"in N hours">>},
          n : {1}]
ResolverInputs == [text : Texts, T : RefInstants, tz : UserOffsets]

\* the pattern whose match stands first in the text
FirstMatchInText(found) == found[1]

\* "for pattern in time_patterns: ... if match: ... break": the first
\* pattern of the list that matches
FirstMatch(found) ==
    TimePatterns[CHOOSE k \in 1..Len(TimePatterns) :
                    /\ TimePatterns[k] \in Range(found)
                    /\ \A j \in 1..(k - 1) : TimePatterns[j] \notin Range(found)]

\* parsed = self.tzinfo.localize(parsed) for a naive result
LocalizeUtc(d, tz) == IF d.aware THEN d ELSE [aware |-> TRUE, t |-> d.t, off |-> 0]
Localize(d, tz) == IF d.aware THEN d ELSE [aware |-> TRUE, t |-> d.t - tz * Hour, off |-> tz]

\* parsed.astimezone(pytz.UTC).replace(microsecond=0).isoformat(): the same
\* instant, cut to the whole second, written in UTC
UtcIso(d) == d.t - (d.t % TicksPerSecond)

\* _parse_date_nlp(text) called at instant T with USER_TIMEZONE tz: None, or
\* the instant its ISO string denotes
ParseDateNlp(text, T, tz) ==
    LET base == RelativeBase(T, tz)
        whole == LibParse(text.whole, base)
        parsed == IF whole # None THEN whole
                  ELSE IF text.found = <<>> THEN None
                  ELSE LibParse(PatternPhrase(FirstMatch(text.found), text.n), base)
    IN  IF text.whole.kind = "raises" \/ parsed = None
        THEN None
        ELSE Some(UtcIso(Localize(parsed[1], tz)))

\* The columns get_pending_tasks reads: priority, due_date (TEXT: NULL, or
\* the ISO string _parse_date_nlp made, all of one format and in UTC, so
\* that the order of the strings is the order of their wall clock fields),
\* created_at (CURRENT_TIMESTAMP, whole seconds) and completed.
Priorities == {"high", "medium", "low"}
PendingRows ==
    [priority : Priorities,
     due_date : {None} \cup {Some(w) : w \in 0..MaxDue},
     created_at : 0..MaxCreated,
     completed : BOOLEAN]
\* tables of up to MaxRows rows, each created in a later second than the
\* rows with smaller ids (so that no two rows tie on every sort key)
PendingTables ==
    UNION {{tbl \in [1..n -> PendingRows] :
               \A j, k \in 1..n : j < k => tbl[j].created_at < tbl[k].created_at}
           : n \in 0..MaxRows}

\* CASE priority WHEN 'high' THEN 1 WHEN 'medium' THEN 2 WHEN 'low' THEN 3 END
PriorityRank(p) == CASE p = "high" -> 1 [] p = "medium" -> 2 [] p = "low" -> 3

\* ASC on a TEXT column: SQLite sorts NULL before every value
TextBefore(a, b) ==
    \/ a = None /\ b # None
    \/ a # None /\ b # None /\ a[1] < b[1]

\* ORDER BY CASE priority ... END, due_date ASC, created_at ASC: row r comes
\* strictly before row q
OrderByBefore(r, q) ==
    \/ PriorityRank(r.priority) < PriorityRank(q.priority)
    \/ /\ r.priority = q.priority
       /\ \/ TextBefore(r.due_date, q.due_date)
          \/ r.due_date = q.due_date /\ r.created_at < q.created_at

\* SELECT ... WHERE completed = 0 ORDER BY ...: the lists the query can
\* return; SQL leaves the order of rows that tie on every key open
PendingLists(tbl) ==
    LET S == {i \in DOMAIN tbl : ~tbl[i].completed}
    IN  {s \in [1..Cardinality(S) -> S] :
            /\ \A j, k \in 1..Cardinality(S) : j # k => s[j] # s[k]
            /\ \A j, k \in 1..Cardinality(S) :
                  j < k => ~OrderByBefore(tbl[s[k]], tbl[s[j]])}

\* add_task: except sqlite3.Error: return -1
AddTaskErrorResult == 0 - 1
\* _handle_task_creation: "if task_id > 0:" one of the confirmations, else
\* "I couldn't save that task. Please try again."
TaskCreationReply(task_id) == IF task_id > 0 THEN "confirmation" ELSE "could_not_save"
\* get_task: "if row: return {...}", else "return None"
GetTaskResult(rows, id) == IF id \in DOMAIN rows THEN "row" ELSE "None"
\* get_task: except sqlite3.Error: return None
GetTaskErrorResult == "None"
\* complete_task: "if cursor.rowcount > 0: ... return True", else "return False"
CompleteTaskResult(rows, id) == IF CompleteMatches(rows, id) THEN "True" ELSE "False"
\* complete_task: except sqlite3.Error: return False
CompleteTaskErrorResult == "False"
\* delete_task: "if cursor.rowcount > 0: ... return True", else "return False"
DeleteTaskResult(rows, id) == IF id \in DOMAIN rows THEN "True" ELSE "False"
\* delete_task: except sqlite3.Error: return False
DeleteTaskErrorResult == "False"

\* ------- scheduler._check_and_send_reminders, run_reminder_scan_now, as
\* functions of the store, of the list get_overdue_tasks returns and of what
\* the collaborators answer for each task
\* send_reminder: True, False, or an error raised at the call
SendOutcomes == {"True", "False", "raise"}
\* complete_task: the UPDATE runs, sqlite3.Error inside it (False), or
\* another error raised out of it
CompleteOutcomes == {"ok", "error", "raise"}

\* the locals of a pass before its for loop: sent_count = 0, seen = set()
LoopStart(rows) == [rows |-> rows, calls |-> <<>>, sent |-> 0, seen |-> {}, raised |-> FALSE]

\* the body of the for loop with the try statements left out: an error
\* leaves the loop and the function
CheckTaskNoTry(st, id, snd, cmp, ts) ==
    LET called == [st EXCEPT !.calls = Append(@, <<"send_reminder", id, snd[id]>>)]
    IN  IF st.raised
        THEN st
        ELSE IF snd[id] = "raise"
        THEN [called EXCEPT !.raised = TRUE]
        ELSE IF snd[id] = "False"
        THEN called
        ELSE IF cmp[id] = "raise"
        THEN [called EXCEPT !.sent = @ + 1, !.raised = TRUE,
                            !.calls = Append(@, <<"complete_task", id, "raise">>)]
        ELSE IF cmp[id] = "error"
        THEN [called EXCEPT !.sent = @ + 1,
                            !.calls = Append(@, <<"complete_task", id, CompleteTaskErrorResult>>)]
        ELSE [called EXCEPT !.sent = @ + 1,
                            !.calls = Append(@, <<"complete_task", id,
                                                 CompleteTaskResult(st.rows, id)>>),
                            !.rows = IF CompleteMatches(st.rows, id)
                                     THEN [@ EXCEPT ![id] = CompletedRow(@, ts)]
                                     ELSE @]

\* the try statement of the for loop with "if success:" left out:
\* complete_task is called whatever send_reminder returned
CheckTaskCompletesUnsent(st, id, snd, cmp, ts) ==
    LET called == [st EXCEPT !.calls = Append(@, <<"send_reminder", id, snd[id]>>)]
    IN  IF snd[id] = "raise"
        THEN called
        ELSE IF cmp[id] # "ok"
        THEN [called EXCEPT !.calls = Append(@, <<"complete_task", id, CompleteTaskErrorResult>>)]
        ELSE [called EXCEPT !.calls = Append(@, <<"complete_task", id,
                                                 CompleteTaskResult(st.rows, id)>>),
                            !.rows = IF CompleteMatches(st.rows, id)
                                     THEN [@ EXCEPT ![id] = CompletedRow(@, ts)]
                                     ELSE @]

\* _check_and_send_reminders, the try statement of the for loop:
\* send_reminder, "if success:" sent_count += 1 and complete_task inside its
\* own try, "else:" a log line, "except Exception: ... continue"
CheckTask(st, id, snd, cmp, ts) ==
    LET called == [st EXCEPT !.calls = Append(@, <<"send_reminder", id, snd[id]>>)]
    IN  IF snd[id] = "raise"
        THEN called
        ELSE IF snd[id] = "False"
        THEN called
        ELSE IF cmp[id] = "raise"
        THEN [called EXCEPT !.sent = @ + 1,
                            !.calls = Append(@, <<"complete_task", id, "raise">>)]
        ELSE IF cmp[id] = "error"
        THEN [called EXCEPT !.sent = @ + 1,
                            !.calls = Append(@, <<"complete_task", id, CompleteTaskErrorResult>>)]
        ELSE [called EXCEPT !.sent = @ + 1,
                            !.calls = Append(@, <<"complete_task", id,
                                                 CompleteTaskResult(st.rows, id)>>),
                            !.rows = IF CompleteMatches(st.rows, id)
                                     THEN [@ EXCEPT ![id] = CompletedRow(@, ts)]
                                     ELSE @]

\* one round of the for loop with the seen check left out
CheckLoopStepNoSeen(st, id, snd, cmp, ts) == CheckTask(st, id, snd, cmp, ts)

\* _check_and_send_reminders, one round of "for task in due_tasks:":
\* "if task['id'] in seen: continue", seen.add(task['id']), then the try
CheckLoopStep(st, id, snd, cmp, ts) ==
    IF id \in st.seen
    THEN st
    ELSE CheckTask([st EXCEPT !.seen = @ \cup {id}], id, snd, cmp, ts)

RECURSIVE CheckLoop(_, _, _, _, _)
CheckLoop(st, list, snd, cmp, ts) ==
    IF list = <<>>
    THEN st
    ELSE CheckLoop(CheckLoopStep(st, Head(list), snd, cmp, ts), Tail(list), snd, cmp, ts)

\* _check_and_send_reminders without "if not message_sender.is_configured():
\* return": the query and the loop run whatever the sender's configuration
CheckAndSendRemindersUnguarded(configured, rows, list, snd, cmp, ts) ==
    LET st == IF list # <<>>
              THEN CheckLoop(LoopStart(rows), list, snd, cmp, ts)
              ELSE LoopStart(rows)
    IN  [calls |-> st.calls, rows |-> st.rows, raised |-> st.raised, ret |-> "None",
         queried |-> TRUE]

\* _check_and_send_reminders: nothing is done, get_overdue_tasks not called
\* either (queried), when the sender is not configured; nothing more than
\* the query when the list is empty; the function returns None
CheckAndSendReminders(configured, rows, list, snd, cmp, ts) ==
    LET st == IF configured /\ list # <<>>
              THEN CheckLoop(LoopStart(rows), list, snd, cmp, ts)
              ELSE LoopStart(rows)
    IN  [calls |-> st.calls, rows |-> st.rows, raised |-> st.raised, ret |-> "None",
         queried |-> configured]

\* the body of run_reminder_scan_now's for loop with complete_task never
\* called
ManualTaskSendOnly(st, id, snd, cmp, ts) ==
    LET called == [st EXCEPT !.calls = Append(@, <<"send_reminder", id, snd[id]>>)]
    IN  IF snd[id] = "True" THEN [called EXCEPT !.sent = @ + 1] ELSE called

\* run_reminder_scan_now, the try statement of the for loop
ManualTask(st, id, snd, cmp, ts) ==
    LET called == [st EXCEPT !.calls = Append(@, <<"send_reminder", id, snd[id]>>)]
    IN  CASE snd[id] = "raise" -> called
          [] snd[id] = "False" -> called
          [] snd[id] = "True" ->
               LET counted == [called EXCEPT !.sent = @ + 1]
               IN  CASE cmp[id] = "raise" ->
                          [counted EXCEPT !.calls = Append(@, <<"complete_task", id, "raise">>)]
                     [] cmp[id] = "error" ->
                          [counted EXCEPT !.calls =
                              Append(@, <<"complete_task", id, CompleteTaskErrorResult>>)]
                     [] cmp[id] = "ok" ->
                          [counted EXCEPT
                              !.calls = Append(@, <<"complete_task", id,
                                                   CompleteTaskResult(st.rows, id)>>),
                              !.rows = IF CompleteMatches(st.rows, id)
                                       THEN [@ EXCEPT ![id] = CompletedRow(@, ts)]
                                       ELSE @]

\* run_reminder_scan_now, one round of "for task in due_tasks:": the seen
\* check, seen.add(task['id']), then the try
ManualLoopStep(st, id, snd, cmp, ts) ==
    IF id \in st.seen
    THEN st
    ELSE ManualTask([st EXCEPT !.seen = @ \cup {id}], id, snd, cmp, ts)

RECURSIVE ManualLoop(_, _, _, _, _)
ManualLoop(st, list, snd, cmp, ts) ==
    IF list = <<>>
    THEN st
    ELSE ManualLoop(ManualLoopStep(st, Head(list), snd, cmp, ts), Tail(list), snd, cmp, ts)

\* run_reminder_scan_now: "return 0" when the sender is not configured or
\* the list is empty, else "return sent_count"
RunReminderScanNow(configured, rows, list, snd, cmp, ts) ==
    LET st == IF configured /\ list # <<>>
              THEN ManualLoop(LoopStart(rows), list, snd, cmp, ts)
              ELSE LoopStart(rows)
    IN  [calls |-> st.calls, rows |-> st.rows, raised |-> st.raised, ret |-> st.sent,
         queried |-> configured]

\* the stores a pass is run on: tasks with a due time, pending or completed
PassTables ==
    UNION {[S -> {NewRow([kind |-> "aware", wall |-> w], 0) : w \in 0..MaxDue}
                 \cup {CompletedRow(NewRow([kind |-> "aware", wall |-> w], 0), 0) :
                          w \in 0..MaxDue}] : S \in SUBSET Ids}
\* lists that name a task more than once, which no SELECT on this table
\* returns and the seen set is there for
RepeatedLists == {<<1, 1>>, <<1, 1, 2>>, <<1, 2, 1>>, <<2, 1, 1>>}

\* ---------------------------------------------------------- bookkeeping
NoPass == [ok |-> {}, lost |-> {}, calls |-> <<>>]
NoRace == [id |-> 0, res |-> [t \in Threads |-> "-"], err |-> FALSE, ended |-> "-"]
ScanPcs == {"s_send", "c_update"}
Bump(f, i) == [f EXCEPT ![i] = IF @ < 2 THEN @ + 1 ELSE @]
StateOf(rows, i) ==
    IF i \notin DOMAIN rows THEN "absent"
    ELSE IF rows[i].completed THEN "completed" ELSE "pending"
\* a finished pair of overlapping calls is forgotten at the next step
RaceKept == IF race.ended # "-" THEN NoRace ELSE race

\* db_path: the default "./assistant.db" (SMSHandler, the scheduler) and the
\* path test_components.py passes
DbPaths == {"./assistant.db", ":memory:"}

\* the thread objects start_scheduler can make before the model stops
\* counting them, and the callers of start_scheduler
LoopIds == 1..MaxLoops
Callers == {"a", "b"}

\* scheduler.py as imported: _scheduler_thread = None, no job registered, no
\* call of start_scheduler in progress
NotStarted ==
    /\ scheduler_thread = 0
    /\ loop = [k \in LoopIds |-> "none"]
    /\ jobs = 0
    /\ ran = 0
    /\ starter = [c \in Callers |-> [pc |-> "idle", made |-> 0]]
    /\ lastCall = "none"

\* a TasksManager constructed on path, before any call: an empty table
ConstructedOn(path) ==
    /\ db_path = path
    /\ now = 0
    /\ hostOffset \in HostOffsets
    /\ tasks = NoRows
    /\ seq = 0
    /\ pc = [t \in Threads |-> "idle"]
    /\ arg = [t \in Threads |-> 0]
    /\ due = [t \in Threads |-> <<>>]
    /\ idx = [t \in Threads |-> 0]
    /\ sent = [t \in Threads |-> 0]
    /\ last = NoCall
    /\ created = <<>>
    /\ delivered = [i \in Ids |-> 0]
    /\ trueCount = [i \in Ids |-> 0]
    /\ race = NoRace
    /\ pass = [t \in Threads |-> NoPass]
    /\ lastPass = NoPass
    /\ byUser = {}
    /\ scheduler_stop = FALSE
    /\ exited = FALSE
    /\ NotStarted

\* the program after start-up: the store on its default path, no call in
\* progress
Constructed == ConstructedOn("./assistant.db")

Init == Constructed /\ inp = None /\ out = None

\* the clock advances
Tick ==
    /\ now < MaxTime
    /\ now' = now + 1
    /\ UNCHANGED <<others, tasks, seq, pc, arg, due, idx, sent, created,
                   delivered, byUser>>

\* ------------------------------------------------ TasksManager.add_task
\* _handle_task_creation calls add_task(task_text, parsed_utc_iso, priority):
\* INSERT, task_id = cursor.lastrowid, commit, return task_id
AddTask(t, d) ==
    /\ t = "web"
    /\ pc[t] = "idle"
    /\ NextRowid(tasks, seq) <= MaxTasks
    /\ tasks' = [i \in DOMAIN tasks \cup {NextRowid(tasks, seq)} |->
                    IF i \in DOMAIN tasks THEN tasks[i] ELSE NewRow(d, hostOffset)]
    /\ seq' = NextRowid(tasks, seq)
    /\ created' = Append(created, NextRowid(tasks, seq))
    /\ UNCHANGED <<now, others, pc, arg, due, idx, sent, delivered, byUser>>

\* the row add_task inserts with all its columns: text, due_date, due_ts and
\* priority from the INSERT, created_at DEFAULT CURRENT_TIMESTAMP, completed
\* DEFAULT 0, completed_at NULL
StoredRow(text, priority, ts, d, off) ==
    [text |-> text, priority |-> priority, created_at |-> ts,
     due_date |-> d, due_ts |-> DueTs(d, off), completed |-> FALSE, completed_at |-> None]

\* the task texts and priorities _handle_task_creation passes
TaskInputs == {<<"pay rent", "high">>, <<"buy milk", "medium">>}

\* add_task(text, due_date, priority), every column of the row kept
AddTaskRow(t, text, priority, d) ==
    /\ t = "web"
    /\ pc[t] = "idle"
    /\ NextRowid(tasks, seq) <= MaxTasks
    /\ tasks' = [i \in DOMAIN tasks \cup {NextRowid(tasks, seq)} |->
                    IF i \in DOMAIN tasks THEN tasks[i]
                    ELSE StoredRow(text, priority, now, d, hostOffset)]
    /\ seq' = NextRowid(tasks, seq)
    /\ created' = Append(created, NextRowid(tasks, seq))
    /\ UNCHANGED <<now, others, pc, arg, due, idx, sent, delivered, byUser>>

\* add_task on ":memory:": sqlite3.connect(":memory:") opens a new, empty
\* database; CREATE TABLE IF NOT EXISTS and the INSERT succeed in it, lastrowid
\* is returned, and conn.close() discards that database
AddTaskInMemory(t, d) ==
    /\ db_path = ":memory:"
    /\ t = "web"
    /\ pc[t] = "idle"
    /\ Len(created) < MaxTasks
    /\ created' = Append(created, NextRowid(NoRows, 0))
    /\ UNCHANGED <<now, others, tasks, seq, pc, arg, due, idx, sent, delivered,
                   byUser>>

\* an error raised only after the commit: the row stays, -1 is returned
AddTaskErrorRowKept(t) ==
    /\ t = "web"
    /\ pc[t] = "idle"
    /\ NextRowid(tasks, seq) <= MaxTasks
    /\ tasks' = [i \in DOMAIN tasks \cup {NextRowid(tasks, seq)} |->
                    IF i \in DOMAIN tasks THEN tasks[i] ELSE NewRow(NoDate, hostOffset)]
    /\ seq' = NextRowid(tasks, seq)
    /\ UNCHANGED <<now, others, pc, arg, due, idx, sent, created, delivered,
                   byUser>>

\* except sqlite3.Error: return -1 (the transaction is rolled back)
AddTaskError(t) ==
    /\ t = "web"
    /\ pc[t] = "idle"
    /\ UNCHANGED <<now, others, tasks, seq, pc, arg, due, idx, sent, created,
                   delivered, byUser>>

\* --------------------------------------------- TasksManager.delete_task
\* DELETE FROM tasks WHERE id = ? AND completed = 0 (a condition on
\* completed added)
DeleteTaskPendingOnly(t, id) ==
    /\ t = "web"
    /\ pc[t] = "idle"
    /\ tasks' = [i \in DOMAIN tasks \ {j \in {id} : CompleteMatches(tasks, j)} |-> tasks[i]]
    /\ byUser' = IF id \in DOMAIN tasks THEN byUser \cup {id} ELSE byUser
    /\ UNCHANGED <<now, others, seq, pc, arg, due, idx, sent, created,
                   delivered>>

\* _handle_command, "delete task N": DELETE, "if cursor.rowcount > 0":
\* commit and return True, else return False
DeleteTask(t, id) ==
    /\ t = "web"
    /\ pc[t] = "idle"
    /\ tasks' = [i \in DOMAIN tasks \ {id} |-> tasks[i]]
    /\ byUser' = IF id \in DOMAIN tasks THEN byUser \cup {id} ELSE byUser
    /\ UNCHANGED <<now, others, seq, pc, arg, due, idx, sent, created,
                   delivered>>

\* except sqlite3.Error: return False
DeleteTaskError(t, id) ==
    /\ t = "web"
    /\ pc[t] = "idle"
    /\ UNCHANGED <<now, others, tasks, seq, pc, arg, due, idx, sent, created,
                   delivered, byUser>>

\* ------------------------------------------------ TasksManager.get_task
\* SELECT ... WHERE id = ?: the row as a dict, or None when there is none
GetTask(t, id) ==
    /\ t = "web"
    /\ pc[t] = "idle"
    /\ UNCHANGED <<now, others, tasks, seq, pc, arg, due, idx, sent, created,
                   delivered, byUser>>

\* except sqlite3.Error: return None
GetTaskError(t, id) ==
    /\ t = "web"
    /\ pc[t] = "idle"
    /\ UNCHANGED <<now, others, tasks, seq, pc, arg, due, idx, sent, created,
                   delivered, byUser>>

\* ------------- scheduler._check_and_send_reminders, run_reminder_scan_now
\* The scheduler thread runs _check_and_send_reminders from _run_loop's
\* schedule.run_pending(); the web thread runs run_reminder_scan_now from
\* the /debug/run-reminders endpoint.  Neither takes a lock.  Both bodies
\* are the same statements, so one set of actions serves both threads.
InScan(t) == due[t] # <<>>

\* the for loop moves on to the next task of due_tasks, or the pass ends
\* (run_reminder_scan_now returns sent_count)
ScanNext(t) ==
    IF idx[t] < Len(due[t])
    THEN /\ pc' = [pc EXCEPT ![t] = "s_send"]
         /\ idx' = [idx EXCEPT ![t] = @ + 1]
         /\ UNCHANGED <<due, sent>>
    ELSE /\ pc' = [pc EXCEPT ![t] = "idle"]
         /\ due' = [due EXCEPT ![t] = <<>>]
         /\ idx' = [idx EXCEPT ![t] = 0]
         /\ sent' = [sent EXCEPT ![t] = 0]

\* a tick's scan started whatever the thread is doing, as if every tick ran
\* its job on a thread of its own
ScanStartReentrant(t) ==
    /\ t = "sched" => ~scheduler_stop
    /\ \E s \in OverdueLists(tasks, now, hostOffset) :
          /\ due' = [due EXCEPT ![t] = s]
          /\ pc' = [pc EXCEPT ![t] = IF s = <<>> THEN "idle" ELSE "s_send"]
          /\ idx' = [idx EXCEPT ![t] = IF s = <<>> THEN 0 ELSE 1]
    /\ UNCHANGED <<now, others, tasks, seq, arg, sent, created, delivered,
                   byUser>>

\* due_tasks = tm.get_overdue_tasks(); "if not due_tasks: return"; else the
\* for loop starts at the first task.  _run_loop calls run_pending only
\* "while not _scheduler_stop.is_set()".
ScanStart(t) ==
    /\ pc[t] = "idle"
    /\ t = "sched" => ~scheduler_stop
    /\ \E s \in OverdueLists(tasks, now, hostOffset) :
          /\ due' = [due EXCEPT ![t] = s]
          /\ pc' = [pc EXCEPT ![t] = IF s = <<>> THEN "idle" ELSE "s_send"]
          /\ idx' = [idx EXCEPT ![t] = IF s = <<>> THEN 0 ELSE 1]
    /\ UNCHANGED <<now, others, tasks, seq, arg, sent, created, delivered,
                   byUser>>

\* get_overdue_tasks: except sqlite3.Error: return [], and the scan returns
ScanStartError(t) ==
    /\ pc[t] = "idle"
    /\ t = "sched" => ~scheduler_stop
    /\ UNCHANGED <<now, others, tasks, seq, pc, arg, due, idx, sent, created,
                   delivered, byUser>>

\* ------------------------------------------- TasksManager.complete_task
\* complete_task returns r to its caller: the scan ignores the result and
\* goes on with its loop, _handle_command answers the user
CompleteReturn(t, r) ==
    /\ arg' = [arg EXCEPT ![t] = 0]
    /\ byUser' = IF r = "True" /\ ~InScan(t) THEN byUser \cup {arg[t]} ELSE byUser
    /\ IF InScan(t)
       THEN ScanNext(t)
       ELSE /\ pc' = [pc EXCEPT ![t] = "idle"]
            /\ UNCHANGED <<due, idx, sent>>

\* _handle_command, "done N": self.tasks_manager.complete_task(task_id)
CompleteTaskCall(t, id) ==
    /\ t = "web"
    /\ pc[t] = "idle"
    /\ pc' = [pc EXCEPT ![t] = "c_update"]
    /\ arg' = [arg EXCEPT ![t] = id]
    /\ UNCHANGED <<now, others, tasks, seq, due, idx, sent, created,
                   delivered, byUser>>

\* the UPDATE and "if cursor.rowcount > 0": commit and return True, else
\* close and return False
CompleteTaskUpdate(t) ==
    /\ pc[t] = "c_update"
    /\ tasks' = IF CompleteMatches(tasks, arg[t])
                THEN [tasks EXCEPT ![arg[t]] = CompletedRow(@, now)]
                ELSE tasks
    /\ CompleteReturn(t, CompleteTaskResult(tasks, arg[t]))
    /\ UNCHANGED <<now, others, seq, created, delivered>>

\* sqlite3.Error raised after the UPDATE was committed: the row is written
\* and False returned
CompleteTaskErrorAfterCommit(t) ==
    /\ pc[t] = "c_update"
    /\ tasks' = IF CompleteMatches(tasks, arg[t])
                THEN [tasks EXCEPT ![arg[t]] = CompletedRow(@, now)]
                ELSE tasks
    /\ CompleteReturn(t, CompleteTaskErrorResult)
    /\ UNCHANGED <<now, others, seq, created, delivered>>

\* except sqlite3.Error: return False (database locked beyond the busy
\* timeout, I/O error at the UPDATE or at the commit)
CompleteTaskError(t) ==
    /\ pc[t] = "c_update"
    /\ CompleteReturn(t, CompleteTaskErrorResult)
    /\ UNCHANGED <<now, others, tasks, seq, created, delivered>>

\* ---------------------------------------------- the scan's loop body
\* send_reminder returned True: sent_count += 1, then tm.complete_task(id)
ScanSendOk(t) ==
    /\ pc[t] = "s_send"
    /\ delivered' = Bump(delivered, due[t][idx[t]])
    /\ sent' = [sent EXCEPT ![t] = @ + 1]
    /\ pc' = [pc EXCEPT ![t] = "c_update"]
    /\ arg' = [arg EXCEPT ![t] = due[t][idx[t]]]
    /\ UNCHANGED <<now, others, tasks, seq, due, idx, created, byUser>>

\* send_reminder returned False, with sent_count counting the attempts
\* ("Returns number of messages attempted") instead of the deliveries
ScanSendFailCounted(t) ==
    /\ pc[t] = "s_send"
    /\ IF idx[t] < Len(due[t])
       THEN /\ pc' = [pc EXCEPT ![t] = "s_send"]
            /\ idx' = [idx EXCEPT ![t] = @ + 1]
            /\ sent' = [sent EXCEPT ![t] = @ + 1]
            /\ UNCHANGED due
       ELSE /\ pc' = [pc EXCEPT ![t] = "idle"]
            /\ due' = [due EXCEPT ![t] = <<>>]
            /\ idx' = [idx EXCEPT ![t] = 0]
            /\ sent' = [sent EXCEPT ![t] = 0]
    /\ UNCHANGED <<now, others, tasks, seq, arg, created, delivered, byUser>>

\* send_reminder returned False and the scan marks the task completed all
\* the same
ScanSendFailCompletes(t) ==
    /\ pc[t] = "s_send"
    /\ pc' = [pc EXCEPT ![t] = "c_update"]
    /\ arg' = [arg EXCEPT ![t] = due[t][idx[t]]]
    /\ UNCHANGED <<now, others, tasks, seq, due, idx, sent, created, delivered,
                   byUser>>

\* send_reminder returned False (Twilio error, timeout): the task is left
\* as it is and the loop goes on
ScanSendFail(t) ==
    /\ pc[t] = "s_send"
    /\ ScanNext(t)
    /\ UNCHANGED <<now, others, tasks, seq, arg, created, delivered, byUser>>

\* ---------------------------------------------------------- observation
\* What an observer of a step writes down: the value a call returned (last),
\* the calls of complete_task that returned True (trueCount), a pair of
\* overlapping complete_task calls (race) and the deliveries of a scan
\* pass (pass, lastPass).  The program reads none of these.

\* no return value is recorded
Quiet == last' = NoCall

\* the race record when thread t enters complete_task(id): a new one when
\* the other thread is inside complete_task for the same pending task
RaceAtCall(t, id) ==
    IF /\ pc[Other(t)] = "c_update"
       /\ arg[Other(t)] = id
       /\ StateOf(tasks, id) = "pending"
    THEN [NoRace EXCEPT !.id = id]
    ELSE RaceKept

\* the race record when thread t leaves complete_task(id) with result r
RaceAtReturn(t, id, r, e, rows) ==
    IF race.id = id /\ race.res[t] = "-"
    THEN [race EXCEPT !.res[t] = r,
                      !.err = @ \/ e,
                      !.ended = IF race.res[Other(t)] # "-" THEN StateOf(rows, id) ELSE "-"]
    ELSE RaceKept


\* a step outside complete_task and outside the scan's loop body
Kept == race' = RaceKept /\ UNCHANGED <<trueCount, pass, lastPass>>

\* thread t enters complete_task(id) from "done N"
SeenCall(t, id) == race' = RaceAtCall(t, id) /\ UNCHANGED <<trueCount, pass, lastPass>>

\* the for loop of thread t moves on with p the deliveries of its pass so
\* far, or the pass ends with them
SeenLoop(t, p) ==
    IF idx[t] < Len(due[t])
    THEN pass' = [pass EXCEPT ![t] = p] /\ UNCHANGED lastPass
    ELSE pass' = [pass EXCEPT ![t] = NoPass] /\ lastPass' = p

\* complete_task returns r to thread t, after a storage error when e
SeenReturn(t, r, e) ==
    /\ trueCount' = IF r = "True" THEN Bump(trueCount, arg[t]) ELSE trueCount
    /\ race' = RaceAtReturn(t, arg[t], r, e, tasks')
    /\ IF InScan(t)
       THEN SeenLoop(t, IF e THEN [pass[t] EXCEPT !.lost = @ \cup {arg[t]}] ELSE pass[t])
       ELSE UNCHANGED <<pass, lastPass>>

\* send_reminder returned True to the scan of thread t, which enters
\* complete_task
SeenSendOk(t) ==
    /\ pass' = [pass EXCEPT ![t].ok = @ \cup {due[t][idx[t]]}]
    /\ race' = RaceAtCall(t, due[t][idx[t]])
    /\ UNCHANGED <<trueCount, lastPass>>

\* send_reminder returned False to the scan of thread t
SeenSendFail(t) == SeenLoop(t, pass[t]) /\ race' = RaceKept /\ UNCHANGED trueCount

\* the same with the calls of the pass written down in order: thread t's
\* scan got r from send_reminder for the task it is at
Logged(p, m, id, r) == [p EXCEPT !.calls = Append(@, <<m, id, r>>)]
LoggedSendOk(t) ==
    /\ pass' = [pass EXCEPT ![t] =
                    Logged([@ EXCEPT !.ok = @ \cup {due[t][idx[t]]}],
                           "send_reminder", due[t][idx[t]], "True")]
    /\ race' = RaceAtCall(t, due[t][idx[t]])
    /\ UNCHANGED <<trueCount, lastPass>>
LoggedSendFail(t) ==
    /\ SeenLoop(t, Logged(pass[t], "send_reminder", due[t][idx[t]], "False"))
    /\ race' = RaceKept
    /\ UNCHANGED trueCount

\* complete_task returns r to thread t, after a storage error when e
LoggedReturn(t, r, e) ==
    /\ trueCount' = IF r = "True" THEN Bump(trueCount, arg[t]) ELSE trueCount
    /\ race' = RaceAtReturn(t, arg[t], r, e, tasks')
    /\ IF InScan(t)
       THEN SeenLoop(t, Logged(IF e THEN [pass[t] EXCEPT !.lost = @ \cup {arg[t]}] ELSE pass[t],
                               "complete_task", arg[t], r))
       ELSE UNCHANGED <<pass, lastPass>>

\* nothing is written down
Unseen == Quiet /\ UNCHANGED <<trueCount, race, pass, lastPass>>

\* ------------------------------------------------------- specifications
\* The running program: the clock, the commands the web thread serves, the
\* scan passes of the scheduler thread and of the manual trigger.  Of the
\* values returned only the list get_overdue_tasks hands a scan is recorded.
Next ==
    \/ Tick /\ Quiet /\ Kept
    \/ \E d \in ParsedDates : AddTask("web", d) /\ Quiet /\ Kept
    \/ AddTaskError("web") /\ Quiet /\ Kept
    \/ \E i \in Ids : CompleteTaskCall("web", i) /\ Quiet /\ SeenCall("web", i)
    \/ \E t \in Threads :
          /\ CompleteTaskUpdate(t) /\ Quiet
          /\ SeenReturn(t, CompleteTaskResult(tasks, arg[t]), FALSE)
    \/ \E t \in Threads :
          /\ CompleteTaskError(t) /\ Quiet
          /\ SeenReturn(t, CompleteTaskErrorResult, TRUE)
    \/ \E i \in Ids : DeleteTask("web", i) /\ Quiet /\ Kept
    \/ \E i \in Ids : DeleteTaskError("web", i) /\ Quiet /\ Kept
    \/ \E t \in Threads :
          ScanStart(t) /\ last' = Call("get_overdue_tasks", due'[t], FALSE) /\ Kept
    \/ \E t \in Threads :
          ScanStartError(t) /\ last' = Call("get_overdue_tasks", <<>>, TRUE) /\ Kept
    \/ \E t \in Threads : ScanSendOk(t) /\ Quiet /\ SeenSendOk(t)
    \/ \E t \in Threads : ScanSendFail(t) /\ Quiet /\ SeenSendFail(t)

Spec == Init /\ [][Next]_vars

\* The store's methods called one at a time by a single caller, as
\* test_components.py does, with the value each call returns recorded.
ApiNext ==
    \/ Tick /\ Quiet /\ Kept
    \/ \E d \in DueDates :
          AddTask("web", d) /\ last' = Call("add_task", NextRowid(tasks, seq), FALSE) /\ Kept
    \/ AddTaskError("web") /\ last' = Call("add_task", AddTaskErrorResult, TRUE) /\ Kept
    \/ \E i \in Ids : CompleteTaskCall("web", i) /\ Quiet /\ SeenCall("web", i)
    \/ /\ CompleteTaskUpdate("web")
       /\ last' = Call("complete_task", CompleteTaskResult(tasks, arg["web"]), FALSE)
       /\ SeenReturn("web", CompleteTaskResult(tasks, arg["web"]), FALSE)
    \/ /\ CompleteTaskError("web")
       /\ last' = Call("complete_task", CompleteTaskErrorResult, TRUE)
       /\ SeenReturn("web", CompleteTaskErrorResult, TRUE)
    \/ \E i \in Ids :
          /\ DeleteTask("web", i) /\ Kept
          /\ last' = Call("delete_task", DeleteTaskResult(tasks, i), FALSE)
    \/ \E i \in Ids :
          /\ DeleteTaskError("web", i) /\ Kept
          /\ last' = Call("delete_task", DeleteTaskErrorResult, TRUE)
    \/ \E i \in Ids :
          /\ GetTask("web", i) /\ Kept
          /\ last' = Call("get_task", GetTaskResult(tasks, i), FALSE)
    \/ \E i \in Ids :
          /\ GetTaskError("web", i) /\ Kept
          /\ last' = Call("get_task", GetTaskErrorResult, TRUE)

ApiSpec == Init /\ [][ApiNext]_vars

\* The running program with the value run_reminder_scan_now returns
\* recorded: sent_count when the pass of the web thread ends, 0 when
\* get_overdue_tasks gave it nothing.
ScanReturned(t) ==
    IF t = "web" /\ InScan(t) /\ due'[t] = <<>>
    THEN last' = Call("run_reminder_scan_now", sent[t], FALSE)
    ELSE Quiet
ScanFoundNothing(e) ==
    /\ last' = Call("run_reminder_scan_now", 0, e)
    /\ lastPass' = NoPass
    /\ race' = RaceKept
    /\ UNCHANGED <<trueCount, pass>>
ManualNext ==
    \/ Tick /\ Quiet /\ Kept
    \/ \E d \in ParsedDates : AddTask("web", d) /\ Quiet /\ Kept
    \/ \E i \in Ids : CompleteTaskCall("web", i) /\ Quiet /\ SeenCall("web", i)
    \/ \E t \in Threads :
          /\ CompleteTaskUpdate(t) /\ ScanReturned(t)
          /\ SeenReturn(t, CompleteTaskResult(tasks, arg[t]), FALSE)
    \/ \E t \in Threads :
          /\ CompleteTaskError(t) /\ ScanReturned(t)
          /\ SeenReturn(t, CompleteTaskErrorResult, TRUE)
    \/ \E i \in Ids : DeleteTask("web", i) /\ Quiet /\ Kept
    \/ ScanStart("sched") /\ Quiet /\ Kept
    \/ /\ ScanStart("web")
       /\ IF due'["web"] = <<>> THEN ScanFoundNothing(FALSE) ELSE Quiet /\ Kept
    \/ ScanStartError("web") /\ ScanFoundNothing(TRUE)
    \/ \E t \in Threads : ScanSendOk(t) /\ Quiet /\ SeenSendOk(t)
    \/ \E t \in Threads : ScanSendFail(t) /\ ScanReturned(t) /\ SeenSendFail(t)

ManualSpec == Init /\ [][ManualNext]_vars

\* ------------------------------------------- stop_scheduler, shutdown
\* on_shutdown: stop_scheduler() sets the Event and returns; it does not
\* join the thread.  The server runs it after the last request was served.
StopScheduler ==
    /\ ~scheduler_stop
    /\ pc["web"] = "idle"
    /\ scheduler_stop' = TRUE
    /\ UNCHANGED <<now, hostOffset, exited, inp, out, db_path, lifecycle, tasks, seq, pc, arg, due,
                   idx, sent, created, delivered, byUser>>

\* uvicorn.run returns and the interpreter exits: the scheduler thread was
\* created with daemon=True, so it ends wherever it is
ProcessExit ==
    /\ scheduler_stop
    /\ ~exited
    /\ exited' = TRUE
    /\ UNCHANGED <<now, hostOffset, scheduler_stop, inp, out, db_path, lifecycle, tasks, seq, pc,
                   arg, due, idx, sent, created, delivered, byUser>>

\* The program from start-up to exit: tasks are created while the server
\* serves requests, the scheduler thread scans until the process exits.
ShutdownNext ==
    \/ ~exited /\ Tick /\ Unseen
    \/ ~scheduler_stop /\ (\E d \in ParsedDates : AddTask("web", d)) /\ Unseen
    \/ ~exited /\ ScanStart("sched") /\ Unseen
    \/ ~exited /\ ScanStartError("sched") /\ Unseen
    \/ ~exited /\ ScanSendOk("sched") /\ Unseen
    \/ ~exited /\ ScanSendFail("sched") /\ Unseen
    \/ ~exited /\ CompleteTaskUpdate("sched") /\ Unseen
    \/ ~exited /\ CompleteTaskError("sched") /\ Unseen
    \/ StopScheduler /\ Unseen
    \/ ProcessExit /\ Unseen

ShutdownSpec == Init /\ [][ShutdownNext]_vars

\* _parse_date_nlp applied to a message on its own
ParseMessage ==
    /\ out = None
    /\ out' = Some(ParseDateNlp(inp.text, inp.T, inp.tz))
    /\ UNCHANGED <<now, hostOffset, tasks, seq, pc, arg, due, idx, sent, last,
                   created, delivered, trueCount, race, pass, lastPass, byUser,
                   scheduler_stop, exited, inp, db_path, lifecycle>>

DateInit == Constructed /\ inp \in ResolverInputs /\ out = None
DateSpec == DateInit /\ [][ParseMessage]_vars

\* WHERE completed = 0: the ids of the rows get_pending_tasks returns.  On
\* ":memory:" its connection holds a new database, whose table is empty, as
\* tasks is there.
PendingIds(rows) == {i \in DOMAIN rows : ~rows[i].completed}

\* get_pending_tasks called on the instance: it changes nothing
GetPendingIds(t) ==
    /\ t = "web"
    /\ pc[t] = "idle"
    /\ UNCHANGED <<now, others, tasks, seq, pc, arg, due, idx, sent, created,
                   delivered, byUser>>

\* A single caller on one TasksManager instance, constructed on either path,
\* calling add_task, get_pending_tasks and complete_task as
\* test_components.py does, with no storage fault; the value each call
\* returns is recorded.
InstanceNext ==
    \/ \E d \in DueDates :
          /\ db_path # ":memory:"
          /\ AddTask("web", d)
          /\ last' = Call("add_task", NextRowid(tasks, seq), FALSE)
          /\ Kept
    \/ \E d \in DueDates :
          /\ AddTaskInMemory("web", d)
          /\ last' = Call("add_task", NextRowid(NoRows, 0), FALSE)
          /\ Kept
    \/ GetPendingIds("web") /\ last' = Call("get_pending_tasks", PendingIds(tasks), FALSE) /\ Kept
    \/ \E i \in Ids : CompleteTaskCall("web", i) /\ Quiet /\ SeenCall("web", i)
    \/ /\ CompleteTaskUpdate("web")
       /\ last' = Call("complete_task", CompleteTaskResult(tasks, arg["web"]), FALSE)
       /\ SeenReturn("web", CompleteTaskResult(tasks, arg["web"]), FALSE)

InstanceInit == (\E path \in DbPaths : ConstructedOn(path)) /\ inp = None /\ out = None
InstanceSpec == InstanceInit /\ [][InstanceNext]_vars

\* the two scan functions applied, each on its own, to the same store, the
\* same list of overdue tasks and the same answers of the collaborators
RunPass ==
    /\ out = None
    /\ out' = Some([sched |-> CheckAndSendReminders(inp.configured, inp.rows, inp.list,
                                                     inp.snd, inp.cmp, inp.now),
                    manual |-> RunReminderScanNow(inp.configured, inp.rows, inp.list,
                                                  inp.snd, inp.cmp, inp.now)])
    /\ UNCHANGED <<now, hostOffset, tasks, seq, pc, arg, due, idx, sent, last,
                   created, delivered, trueCount, race, pass, lastPass, byUser,
                   scheduler_stop, exited, inp, db_path, lifecycle>>

PassInit ==
    /\ Constructed
    /\ out = None
    /\ \E rows \in PassTables, ts \in 0..MaxTime, configured \in BOOLEAN,
          snd \in [Ids -> SendOutcomes], cmp \in [Ids -> CompleteOutcomes] :
          \E list \in OverdueLists(rows, ts, hostOffset) \cup RepeatedLists :
             inp = [rows |-> rows, now |-> ts, list |-> list, snd |-> snd,
                    cmp |-> cmp, configured |-> configured]
PassSpec == PassInit /\ [][RunPass]_vars

\* get_pending_tasks applied to a table on its own
GetPendingTasks ==
    /\ out = None
    /\ \E s \in PendingLists(inp) : out' = Some(s)
    /\ UNCHANGED <<now, hostOffset, tasks, seq, pc, arg, due, idx, sent,
                   last, created, delivered, trueCount, race, pass, lastPass,
                   byUser, scheduler_stop, exited, inp, db_path, lifecycle>>

PendingInit == Constructed /\ inp \in PendingTables /\ out = None
PendingSpec == PendingInit /\ [][GetPendingTasks]_vars

\* The running program under the assumptions of the delivery contract,
\* with nothing written down: the user's commands, the storage faults and
\* the scheduled scan of _run_loop (the manual trigger of the debug endpoint
\* takes no lock and delays no step of the scheduled scan, so it is left to
\* Spec).
LiveNext ==
    \/ Tick /\ Unseen
    \/ \E d \in ParsedDates : AddTask("web", d) /\ Unseen
    \/ \E i \in Ids : CompleteTaskCall("web", i) /\ Unseen
    \/ \E t \in Threads : CompleteTaskUpdate(t) /\ Unseen
    \/ \E t \in Threads : CompleteTaskError(t) /\ Unseen
    \/ \E i \in Ids : DeleteTask("web", i) /\ Unseen
    \/ ScanStart("sched") /\ Unseen
    \/ ScanStartError("sched") /\ Unseen
    \/ ScanSendOk("sched") /\ Unseen
    \/ ScanSendFail("sched") /\ Unseen

\* Task creation from a message.  The clock unit is read as a day, so that
\* the instant _parse_date_nlp returns falls on a clock reading.
CreationTexts ==
    {tx \in Texts :
        /\ tx.n = 1
        /\ tx.whole.kind \in {"nothing", "raises", "today", "tomorrow"}
        /\ tx.found \in {<<>>, <<"today">>}}

\* parsed_utc_iso as add_task receives it
DueDateArg(r) == IF r = None THEN NoDate ELSE [kind |-> "aware", wall |-> r[1] \div Day]

\* _handle_task_creation: parsed_utc_iso = self._parse_date_nlp(user_message),
\* then add_task(task_text, parsed_utc_iso, priority)
HandleTaskCreation(text, tz) ==
    AddTask("web", DueDateArg(ParseDateNlp(text, now * Day, tz)))

\* Messages that create tasks, and the scan passes of the scheduler thread
\* and of the manual trigger, with the message and what the resolver made of
\* it recorded.
HandlerNext ==
    \/ Tick /\ Unseen
    \/ \E text \in CreationTexts, tz \in UserOffsets :
          /\ HandleTaskCreation(text, tz)
          /\ last' = Call("_handle_task_creation",
                          [text |-> text, parsed |-> ParseDateNlp(text, now * Day, tz)],
                          FALSE)
          /\ Kept
    \/ \E t \in Threads : ScanStart(t) /\ Unseen
    \/ \E t \in Threads : ScanSendOk(t) /\ Unseen
    \/ \E t \in Threads : ScanSendFail(t) /\ Unseen
    \/ \E t \in Threads : CompleteTaskUpdate(t) /\ Unseen
    \/ \E t \in Threads : CompleteTaskError(t) /\ Unseen

HandlerSpec == Init /\ [][HandlerNext]_vars

\* The clock, the user's commands and the scan passes of the scheduler
\* thread, with the calls every pass makes written down in order.
LoggedNext ==
    \/ Tick /\ Quiet /\ Kept
    \/ \E d \in ParsedDates : AddTask("web", d) /\ Quiet /\ Kept
    \/ \E i \in Ids : CompleteTaskCall("web", i) /\ Quiet /\ SeenCall("web", i)
    \/ \E t \in Threads :
          /\ CompleteTaskUpdate(t) /\ Quiet
          /\ LoggedReturn(t, CompleteTaskResult(tasks, arg[t]), FALSE)
    \/ \E t \in Threads :
          /\ CompleteTaskError(t) /\ Quiet
          /\ LoggedReturn(t, CompleteTaskErrorResult, TRUE)
    \/ \E i \in Ids : DeleteTask("web", i) /\ Quiet /\ Kept
    \/ ScanStart("sched") /\ last' = Call("get_overdue_tasks", due'["sched"], FALSE) /\ Kept
    \/ ScanStartError("sched") /\ last' = Call("get_overdue_tasks", <<>>, TRUE) /\ Kept
    \/ ScanSendOk("sched") /\ Quiet /\ LoggedSendOk("sched")
    \/ ScanSendFail("sched") /\ Quiet /\ LoggedSendFail("sched")

LoggedSpec == Init /\ [][LoggedNext]_vars

\* The store with every column of its rows: tasks created, completed and
\* deleted by the user's commands while the scheduler thread scans.
FrameNext ==
    \/ Tick /\ Unseen
    \/ \E x \in TaskInputs, d \in ParsedDates : AddTaskRow("web", x[1], x[2], d) /\ Unseen
    \/ \E i \in Ids : CompleteTaskCall("web", i) /\ Unseen
    \/ \E t \in Threads : CompleteTaskUpdate(t) /\ Unseen
    \/ \E t \in Threads : CompleteTaskError(t) /\ Unseen
    \/ \E i \in Ids : DeleteTask("web", i) /\ Unseen
    \/ ScanStart("sched") /\ Unseen
    \/ ScanSendOk("sched") /\ Unseen
    \/ ScanSendFail("sched") /\ Unseen

FrameSpec == Init /\ [][FrameNext]_vars

\* ------------------------------------------------- _run_loop, step by step
\* "while not _scheduler_stop.is_set():" read as true although the Event is
\* set, as "while True:" would
LoopCheckIgnoringStop ==
    /\ pc["sched"] = "idle"
    /\ pc' = [pc EXCEPT !["sched"] = "run_pending"]
    /\ UNCHANGED <<now, others, tasks, seq, arg, due, idx, sent, created,
                   delivered, byUser>>

\* "while not _scheduler_stop.is_set():" finds the Event clear and the body
\* of the loop is entered
LoopCheck ==
    /\ pc["sched"] = "idle"
    /\ ~scheduler_stop
    /\ pc' = [pc EXCEPT !["sched"] = "run_pending"]
    /\ UNCHANGED <<now, others, tasks, seq, arg, due, idx, sent, created,
                   delivered, byUser>>

\* schedule.run_pending() finds the job due and runs
\* _check_and_send_reminders: get_overdue_tasks, then the for loop or, on an
\* empty list, the return to _scheduler_stop.wait(1.0)
RunPending ==
    /\ pc["sched"] = "run_pending"
    /\ \E s \in OverdueLists(tasks, now, hostOffset) :
          /\ due' = [due EXCEPT !["sched"] = s]
          /\ pc' = [pc EXCEPT !["sched"] = IF s = <<>> THEN "idle" ELSE "s_send"]
          /\ idx' = [idx EXCEPT !["sched"] = IF s = <<>> THEN 0 ELSE 1]
    /\ UNCHANGED <<now, others, tasks, seq, arg, sent, created, delivered,
                   byUser>>

\* schedule.run_pending() finds the job not due yet (the 10 seconds have not
\* passed), or the pass returns before its loop; _scheduler_stop.wait(1.0)
RunPendingNothing ==
    /\ pc["sched"] = "run_pending"
    /\ pc' = [pc EXCEPT !["sched"] = "idle"]
    /\ UNCHANGED <<now, others, tasks, seq, arg, due, idx, sent, created,
                   delivered, byUser>>

\* "while not _scheduler_stop.is_set():" finds the Event set: the loop is
\* left, "Reminder scheduler loop stopping" is logged and the thread ends
LoopExit ==
    /\ pc["sched"] = "idle"
    /\ scheduler_stop
    /\ pc' = [pc EXCEPT !["sched"] = "stopped"]
    /\ UNCHANGED <<now, others, tasks, seq, arg, due, idx, sent, created,
                   delivered, byUser>>

\* the steps of the scheduler thread
LoopStep ==
    \/ LoopCheck
    \/ RunPending
    \/ RunPendingNothing
    \/ ScanSendOk("sched")
    \/ ScanSendFail("sched")
    \/ CompleteTaskUpdate("sched")
    \/ CompleteTaskError("sched")
    \/ LoopExit

\* The scheduler thread from start_scheduler to the end of _run_loop, with
\* tasks created meanwhile and stop_scheduler called at some moment.
StopNext ==
    \/ Tick /\ Unseen
    \/ ~scheduler_stop /\ (\E d \in ParsedDates : AddTask("web", d)) /\ Unseen
    \/ StopScheduler /\ Unseen
    \/ LoopCheck /\ Unseen
    \/ RunPending /\ Unseen
    \/ RunPendingNothing /\ Unseen
    \/ ScanSendOk("sched") /\ Unseen
    \/ ScanSendFail("sched") /\ Unseen
    \/ CompleteTaskUpdate("sched") /\ Unseen
    \/ CompleteTaskError("sched") /\ Unseen
    \/ LoopExit /\ Unseen

\* the thread keeps running: whichever step it is at is taken in the end,
\* the calls of a pass that is in progress return
StopSpec == Init /\ [][StopNext]_vars /\ WF_vars(LoopStep /\ Unseen)

\* ------------------------------------- start_scheduler, stop_scheduler
\* what the steps of start_scheduler, stop_scheduler and of the threads they
\* make leave alone: the store, the scans, the clock
program == <<now, hostOffset, tasks, seq, pc, arg, due, idx, sent, last, created,
             delivered, trueCount, race, pass, lastPass, byUser, exited, inp, out,
             db_path>>

\* Thread.is_alive(): started and not yet returned from _run_loop
Alive == {"register", "check", "run"}

\* start_scheduler: "if _scheduler_thread and _scheduler_thread.is_alive():
\* ... return", else the call goes on
StartCheck(c) ==
    /\ starter[c].pc = "idle"
    /\ IF scheduler_thread # 0 /\ loop[scheduler_thread] \in Alive
       THEN lastCall' = "start" /\ UNCHANGED starter
       ELSE starter' = [starter EXCEPT ![c].pc = "clear"] /\ UNCHANGED lastCall
    /\ UNCHANGED <<program, scheduler_stop, scheduler_thread, loop, jobs, ran>>

\* _scheduler_stop.clear()
StartClear(c) ==
    /\ starter[c].pc = "clear"
    /\ scheduler_stop' = FALSE
    /\ starter' = [starter EXCEPT ![c].pc = "make"]
    /\ UNCHANGED <<program, scheduler_thread, loop, jobs, ran, lastCall>>

\* _scheduler_thread = threading.Thread(target=_run_loop, ..., daemon=True)
StartMake(c) ==
    /\ starter[c].pc = "make"
    /\ \E k \in LoopIds :
          /\ loop[k] = "none"
          /\ \A j \in 1..(k - 1) : loop[j] # "none"
          /\ loop' = [loop EXCEPT ![k] = "made"]
          /\ scheduler_thread' = k
          /\ starter' = [starter EXCEPT ![c] = [pc |-> "start", made |-> k]]
    /\ UNCHANGED <<program, scheduler_stop, jobs, ran, lastCall>>

\* _scheduler_thread.start(), on the thread the global names at that moment:
\* RuntimeError when that thread was started before; then the call returns
StartThread(c) ==
    /\ starter[c].pc = "start"
    /\ IF loop[scheduler_thread] = "made"
       THEN loop' = [loop EXCEPT ![scheduler_thread] = "register"] /\ lastCall' = "start"
       ELSE UNCHANGED loop /\ lastCall' = "start raised"
    /\ starter' = [starter EXCEPT ![c].pc = "idle"]
    /\ UNCHANGED <<program, scheduler_stop, scheduler_thread, jobs, ran>>

\* stop_scheduler: _scheduler_stop.set()
StopSchedulerCall ==
    /\ scheduler_stop' = TRUE
    /\ lastCall' = "stop"
    /\ UNCHANGED <<program, scheduler_thread, loop, jobs, ran, starter>>

\* _run_loop: schedule.every(10).seconds.do(_check_and_send_reminders) adds
\* a job to the list of the schedule module, which nothing ever clears
LoopRegister(k) ==
    /\ loop[k] = "register"
    /\ jobs' = jobs + 1
    /\ loop' = [loop EXCEPT ![k] = "check"]
    /\ UNCHANGED <<program, scheduler_stop, scheduler_thread, ran, starter, lastCall>>

\* _run_loop: "while not _scheduler_stop.is_set():", and the return from
\* _run_loop when it is set
LoopWhile(k) ==
    /\ loop[k] = "check"
    /\ loop' = [loop EXCEPT ![k] = IF scheduler_stop THEN "dead" ELSE "run"]
    /\ UNCHANGED <<program, scheduler_stop, scheduler_thread, jobs, ran, starter, lastCall>>

\* _run_loop: schedule.run_pending() over a ten-second period runs every
\* registered job once, then _scheduler_stop.wait(1.0)
LoopRunPending(k) ==
    /\ loop[k] = "run"
    /\ ran' = jobs
    /\ loop' = [loop EXCEPT ![k] = "check"]
    /\ UNCHANGED <<program, scheduler_stop, scheduler_thread, jobs, starter, lastCall>>

\* start_scheduler called by the callers cs, and the threads that were
\* started
LifeNextOf(cs) ==
    \/ \E c \in cs : StartCheck(c)
    \/ \E c \in cs : StartClear(c)
    \/ \E c \in cs : StartMake(c)
    \/ \E c \in cs : StartThread(c)
    \/ \E k \in LoopIds : LoopRegister(k)
    \/ \E k \in LoopIds : LoopWhile(k)
    \/ \E k \in LoopIds : LoopRunPending(k)

\* calls of start_scheduler and stop_scheduler that may overlap
LifeNext == LifeNextOf(Callers) \/ StopSchedulerCall
LifeSpec == Init /\ [][LifeNext]_vars

\* calls of start_scheduler and stop_scheduler one after the other, each
\* made when the one before has returned, as main.py makes them at startup
\* and at shutdown
SerialNext == LifeNextOf({"a"}) \/ (starter["a"].pc = "idle" /\ StopSchedulerCall)
SerialSpec == Init /\ [][SerialNext]_vars

\* the steps of the scheduler thread that depend on nothing outside the
\* process: the loop's own and the calls on the store.  send_reminder's
\* return is not among them: client.messages.create is called with no
\* timeout, on a Client constructed with none, so the call returns when the
\* network answers or fails and not before.
LocalStep ==
    \/ LoopCheck
    \/ RunPending
    \/ RunPendingNothing
    \/ CompleteTaskUpdate("sched")
    \/ CompleteTaskError("sched")
    \/ LoopExit

\* The scheduler thread kept running, the clock advancing, and nothing
\* assumed about when send_reminder returns.
HangSpec ==
    /\ Init
    /\ [][StopNext]_vars
    /\ WF_vars(Tick /\ Unseen)
    /\ WF_vars(LocalStep /\ Unseen)

\* The clock advances; _run_loop keeps running the scan, and send_reminder
\* and complete_task return to it; for every task, send_reminder and
\* complete_task succeed if the scan tries them again and again.
SchedStep ==
    \/ ScanStart("sched")
    \/ ScanSendOk("sched") \/ ScanSendFail("sched")
    \/ CompleteTaskUpdate("sched") \/ CompleteTaskError("sched")
SchedSendOkFor(i) ==
    ScanSendOk("sched") /\ due["sched"][idx["sched"]] = i /\ Unseen
SchedCompleteFor(i) ==
    CompleteTaskUpdate("sched") /\ arg["sched"] = i /\ Unseen
Fairness ==
    /\ WF_vars(Tick /\ Unseen)
    /\ WF_vars(SchedStep /\ Unseen)
    /\ \A i \in Ids : SF_vars(SchedSendOkFor(i))
    /\ \A i \in Ids : SF_vars(SchedCompleteFor(i))

LiveSpec == Init /\ [][LiveNext]_vars /\ Fairness

\* ================================================================ claims
Pending(i) == StateOf(tasks, i) = "pending"
InManualScan == pc["web"] \in ScanPcs /\ InScan("web")
InScheduledScan == pc["sched"] \in ScanPcs

\* C1: over the whole execution send_reminder reports success at most once
\* for every task.
C1_DeliveredAtMostOnce == \A i \in Ids : delivered[i] <= 1

\* C2: a manual scan pass and a scheduled scan pass are never in progress at
\* the same time.
C2_ScansNeverOverlap == ~(InScheduledScan /\ InManualScan)

C4_CompleteAtMostOnce ==
    /\ [](\A i \in Ids : trueCount[i] <= 1)
    /\ [][(/\ pc["web"] = "c_update"
           /\ pc'["web"] = "idle"
           /\ ~Pending(arg["web"]))
          => (/\ last'.m = "complete_task"
              /\ last'.ret = "False"
              /\ tasks' = tasks)]_vars

\* C4 witness: a call on a completed task has returned False
C4_Witness ==
    /\ last.m = "complete_task"
    /\ ~last.err
    /\ last.ret = "False"
    /\ \E i \in DOMAIN tasks : tasks[i].completed /\ trueCount[i] = 1

\* C5: completed only goes from false to true, completed_at is null exactly
\* while the task is pending and never changes once set, and a task that
\* was completed is never pending again.
C5_CompletedMonotonic ==
    /\ [](\A i \in DOMAIN tasks : (tasks[i].completed_at = None) <=> ~tasks[i].completed)
    /\ [](\A i \in Ids : trueCount[i] >= 1 => ~Pending(i))
    /\ [][\A i \in DOMAIN tasks \cap DOMAIN tasks' :
            tasks[i].completed =>
                /\ tasks'[i].completed
                /\ tasks'[i].completed_at = tasks[i].completed_at]_vars

\* C5 witness: a task was completed at an earlier time and is still stored
C5_Witness ==
    \E i \in DOMAIN tasks : tasks[i].completed /\ tasks[i].completed_at[1] < now

\* C6: the list get_overdue_tasks returns at instant now holds exactly the
\* pending tasks with a due instant strictly before now, each once.
C6_OverdueExact ==
    (last.m = "get_overdue_tasks" /\ ~last.err) =>
        /\ Range(last.ret) =
              {i \in DOMAIN tasks :
                  /\ ~tasks[i].completed
                  /\ tasks[i].due_ts # None
                  /\ tasks[i].due_ts[1] < now}
        /\ \A j, k \in 1..Len(last.ret) : j # k => last.ret[j] # last.ret[k]

\* C7: every pending task whose due instant has passed is eventually
\* delivered successfully and marked completed, unless a user command
\* completes or deletes it (the clock of the model stops at MaxTime, so the
\* due instant has to lie before the last reading of the scan's clock).
C7_Overdue(i) ==
    /\ Pending(i)
    /\ tasks[i].due_ts # None
    /\ tasks[i].due_ts[1] < now
    /\ tasks[i].due_ts[1] < UtcNowTimestamp(MaxTime, hostOffset)
C7_Handled(i) ==
    \/ i \in byUser
    \/ delivered[i] >= 1 /\ StateOf(tasks, i) = "completed"
C7_EventuallyDelivered == \A i \in Ids : C7_Overdue(i) ~> C7_Handled(i)

\* C7 witness: the scan has delivered and completed a task no user command
\* touched
C7_Witness ==
    \E i \in Ids : i \notin byUser /\ delivered[i] >= 1 /\ StateOf(tasks, i) = "completed"

C9_StoreErrorDistinct ==
    last.err =>
        /\ last.m = "get_task" => last.ret # GetTaskResult(NoRows, 1)
        /\ last.m = "complete_task" => last.ret # CompleteTaskResult(NoRows, 1)
        /\ last.m = "delete_task" => last.ret # DeleteTaskResult(NoRows, 1)

\* C10: the ids add_task returns are strictly increasing in creation order
\* (so unique and never reassigned), whatever was completed or deleted in
\* between.
C10_IdsStrictlyIncreasing ==
    \A j, k \in 1..Len(created) : j < k => created[j] < created[k]

\* C10 witness: add_task has just returned id 2 although task 1, the
\* highest id at that time, had been deleted before the call
C10_Witness ==
    /\ last.m = "add_task"
    /\ ~last.err
    /\ created = <<1, 2>>
    /\ DOMAIN tasks = {2}

\* C11: add_task returns a positive id exactly when it added one new pending
\* row (completed false, completed_at null) and left the others alone; on a
\* storage error it returns -1, the rows are unchanged and the task-creation
\* handler answers with the failure message, not with a confirmation.
C11_AddTaskOutcome ==
    [][last'.m = "add_task" =>
        IF last'.ret > 0
        THEN /\ ~last'.err
             /\ last'.ret \notin DOMAIN tasks
             /\ DOMAIN tasks' = DOMAIN tasks \cup {last'.ret}
             /\ ~tasks'[last'.ret].completed
             /\ tasks'[last'.ret].completed_at = None
             /\ \A i \in DOMAIN tasks : tasks'[i] = tasks[i]
             /\ TaskCreationReply(last'.ret) = "confirmation"
        ELSE /\ last'.err
             /\ last'.ret = 0 - 1
             /\ tasks' = tasks
             /\ TaskCreationReply(last'.ret) = "could_not_save"]_vars

\* C11 witness: add_task has failed with a storage error on a store that
\* holds a task added before
C11_Witness ==
    /\ last.m = "add_task"
    /\ last.err
    /\ created = <<1>>
    /\ DOMAIN tasks = {1}

\* C12: delete_task on an id that is not stored returns False and leaves the
\* rows unchanged; on a stored id, pending or completed, it returns True,
\* removes that row and changes no other row.
C12_DeleteOutcome ==
    [][\A i \in Ids :
          (DeleteTask("web", i) /\ last'.m = "delete_task" /\ ~last'.err) =>
              IF i \in DOMAIN tasks
              THEN /\ last'.ret = "True"
                   /\ DOMAIN tasks' = DOMAIN tasks \ {i}
                   /\ \A j \in DOMAIN tasks' : tasks'[j] = tasks[j]
              ELSE /\ last'.ret = "False"
                   /\ tasks' = tasks]_vars

\* C12 witness: delete_task has returned True for a completed task while
\* another task is stored
C12_Witness ==
    /\ last.m = "delete_task"
    /\ ~last.err
    /\ last.ret = "True"
    /\ DOMAIN tasks # {}
    /\ \E i \in Ids \ DOMAIN tasks : trueCount[i] = 1

\* ascending with the values that are missing last
TextBeforeNullsLast(a, b) ==
    \/ a # None /\ b = None
    \/ a # None /\ b # None /\ a[1] < b[1]

\* C13: get_pending_tasks returns exactly the tasks that are not completed,
\* each once, ordered by priority (high, medium, low), then by due time
\* ascending with the tasks without due time last, then by creation order.
C13_PendingOrder ==
    out # None =>
        /\ Range(out[1]) = {i \in DOMAIN inp : ~inp[i].completed}
        /\ \A j, k \in 1..Len(out[1]) : j # k => out[1][j] # out[1][k]
        /\ \A j, k \in 1..Len(out[1]) :
              j < k =>
                LET r == inp[out[1][j]]
                    q == inp[out[1][k]]
                IN  \/ PriorityRank(r.priority) < PriorityRank(q.priority)
                    \/ /\ r.priority = q.priority
                       /\ \/ TextBeforeNullsLast(r.due_date, q.due_date)
                          \/ r.due_date = q.due_date /\ out[1][j] < out[1][k]

C15_ScanFinishesBeforeExit == exited => ~InScheduledScan

\* the message that is just "in 5 minutes", or has it as its only phrase
C16_InFiveMinutes(text) ==
    \/ text.whole = [kind |-> "offset", unit |-> "minute", n |-> 5] /\ text.found = <<>>
    \/ text.whole.kind = "nothing" /\ text.found = <<"in N minutes">> /\ text.n = 5

\* C16 as stated: "in 5 minutes" resolved at instant T gives exactly T + 300
\* seconds, whatever the user's timezone.
C16_ExactOffset ==
    (out # None /\ C16_InFiveMinutes(inp.text)) => out[1] = Some(inp.T + 300 * Second)

\* C16 amended: "in 5 minutes" resolved at instant T gives T + 300 seconds
\* cut to the whole second (T + 300 s itself when T is a whole second),
\* whatever the user's timezone.
C16_OffsetToTheSecond ==
    (out # None /\ C16_InFiveMinutes(inp.text)) =>
        /\ out[1] # None
        /\ out[1][1] = (inp.T + 300 * Second) - (inp.T % Second)
        /\ inp.T % Second = 0 => out[1][1] = inp.T + 300 * Second

\* C16 witness: "in 5 minutes" was resolved for a user west of UTC at an
\* instant that is not a whole second
C16_Witness ==
    /\ out # None
    /\ C16_InFiveMinutes(inp.text)
    /\ inp.tz < 0
    /\ inp.T % Second # 0

\* the calendar day (days since 2024-01-15) an instant falls on for a user
\* at a UTC offset
C17_LocalDay(t, tz) == (t + tz * Hour) \div Day

\* the message that is just "tomorrow", or has it as its only phrase
C17_Tomorrow(text) ==
    \/ text.whole.kind = "tomorrow" /\ text.found = <<>>
    \/ text.whole.kind = "nothing" /\ text.found = <<"tomorrow">>

\* C17: "tomorrow" resolves to the calendar day after the reference instant's
\* day in the user's timezone (at 2024-01-15T23:00 in UTC-6: 2024-01-16 there,
\* which is 2024-01-17T05:00 UTC, and not the day after the UTC date of the
\* reference instant); a parse result without zone is read as wall-clock time
\* in the user's timezone; every result is a UTC instant of whole seconds.
C17_UserZoneAnchored ==
    (out # None /\ out[1] # None) =>
        /\ out[1][1] % Second = 0
        /\ C17_Tomorrow(inp.text) =>
              /\ C17_LocalDay(out[1][1], inp.tz) = C17_LocalDay(inp.T, inp.tz) + 1
              /\ (inp.T = 29 * Hour /\ inp.tz = 0 - 6) =>
                    /\ out[1][1] = 53 * Hour
                    /\ C17_LocalDay(out[1][1], inp.tz) = 1
                    /\ C17_LocalDay(out[1][1], inp.tz) # C17_LocalDay(inp.T, 0) + 1
        /\ inp.text.whole.kind = "naive" =>
              out[1][1] = (inp.text.whole.wall - inp.tz * Hour)
                          - ((inp.text.whole.wall - inp.tz * Hour) % Second)

\* C17 witness: "tomorrow" was resolved at 2024-01-15T23:00 in UTC-6
C17_Witness ==
    /\ out # None
    /\ out[1] # None
    /\ C17_Tomorrow(inp.text)
    /\ inp.T = 29 * Hour
    /\ inp.tz = 0 - 6

\* a message in which the resolver finds no date, or on which the parser
\* raises
C18_NoDateIn(text) ==
    \/ text.whole.kind = "raises"
    \/ text.whole.kind = "nothing" /\ text.found = <<>>

\* C18: for a message with no date in it, or one the parser raises on, the
\* resolver returns None and the task is still created, pending and without
\* a due time; a task without a due time is in no scan's list of overdue
\* tasks, no scan delivers it, and no scan completes it.
C18_NoDateNeverDue ==
    /\ [][(last'.m = "_handle_task_creation" /\ C18_NoDateIn(last'.ret.text)) =>
            /\ last'.ret.parsed = None
            /\ \E i \in Ids \ DOMAIN tasks :
                  /\ DOMAIN tasks' = DOMAIN tasks \cup {i}
                  /\ tasks'[i].due_date = NoDate
                  /\ tasks'[i].due_ts = None
                  /\ StateOf(tasks', i) = "pending"]_vars
    /\ [](\A i \in DOMAIN tasks :
            tasks[i].due_date = NoDate =>
                /\ tasks[i].due_ts = None
                /\ Pending(i)
                /\ delivered[i] = 0
                /\ \A t \in Threads : i \notin Range(due[t]))

\* C18 witness: a task created without a due time is still pending at the
\* end of the clock, after a scan has delivered and completed another task
C18_Witness ==
    /\ now = MaxTime
    /\ \E i, j \in DOMAIN tasks :
          /\ tasks[i].due_date = NoDate
          /\ Pending(i)
          /\ delivered[j] = 1
          /\ StateOf(tasks, j) = "completed"

\* C19: on any instance, the in-memory one included, a task added by a
\* successful add_task is visible to the later calls on that instance:
\* get_pending_tasks contains it until it is completed (exactly one task
\* after one add), and complete_task on its id returns True.
C19_VisibleOnSameInstance ==
    [][/\ last'.m = "get_pending_tasks" =>
            /\ \A k \in 1..Len(created) :
                  trueCount[created[k]] = 0 => created[k] \in last'.ret
            /\ (Len(created) = 1 /\ trueCount[created[1]] = 0) =>
                  Cardinality(last'.ret) = 1
       /\ (/\ last'.m = "complete_task"
           /\ arg["web"] \in Range(created)
           /\ trueCount[arg["web"]] = 0) => last'.ret = "True"]_vars

\* the step in which the scheduler thread begins the for loop of a pass
C20_PassBegins ==
    /\ pc'["sched"] = "s_send"
    /\ idx'["sched"] = 1
    /\ ~(pc["sched"] = "s_send" /\ idx["sched"] = 1 /\ due'["sched"] = due["sched"])

\* C20: the loop starts the scan of a tick only when the scan of the previous
\* tick has returned, however many clock ticks that scan lasted: the passes
\* of the scheduler thread follow one another.
C20_ScheduledPassesSequential ==
    [][C20_PassBegins =>
           /\ pc["sched"] = "idle"
           /\ due["sched"] = <<>>
           /\ pass["sched"] = NoPass]_vars

\* C20 witness: a scheduled pass that completed its first task at an earlier
\* clock reading is still at its second task when the clock has reached its
\* end
C20_Witness ==
    /\ InScheduledScan
    /\ idx["sched"] = 2
    /\ now = MaxTime
    /\ LET i == due["sched"][1]
       IN  /\ StateOf(tasks, i) = "completed"
           /\ i \notin byUser
           /\ tasks[i].completed_at # None
           /\ tasks[i].completed_at[1] < now

\* C21: once a user command has completed a task, no scan calls
\* send_reminder for it any more, not even a pass that fetched its list of
\* overdue tasks before the command took effect.
C21_NoDeliveryAfterUserCompletion ==
    [][\A t \in Threads :
          (ScanSendOk(t) \/ ScanSendFail(t)) =>
              ~(due[t][idx[t]] \in byUser /\ StateOf(tasks, due[t][idx[t]]) = "completed")]_vars

\* the tasks for which send_reminder returned False in a pass
C22_Failed(p) ==
    {c[2] : c \in {d \in Range(p.calls) : d[1] = "send_reminder" /\ d[3] = "False"}}

\* C22: when send_reminder returns False for a task, the pass leaves the
\* store as it is and does not call complete_task for the task, it goes on
\* to the next task of its list, and the list of overdue tasks the next scan
\* reads from the store contains the task if it is then still pending.
C22_FailedLeftForRetry ==
    /\ [][ScanSendFail("sched") =>
            /\ tasks' = tasks
            /\ pc'["sched"] # "c_update"
            /\ arg'["sched"] = 0
            /\ IF idx["sched"] < Len(due["sched"])
               THEN /\ pc'["sched"] = "s_send"
                    /\ due'["sched"] = due["sched"]
                    /\ idx'["sched"] = idx["sched"] + 1
               ELSE pc'["sched"] = "idle"]_vars
    /\ [](\A p \in {pass["sched"], lastPass} : \A i \in C22_Failed(p) :
             <<"complete_task", i, "True">> \notin Range(p.calls)
             /\ <<"complete_task", i, "False">> \notin Range(p.calls))
    /\ [][(last'.m = "get_overdue_tasks" /\ ~last'.err) =>
            \A i \in C22_Failed(lastPass) : Pending(i) => i \in Range(last'.ret)]_vars

\* C22 witness: the scheduler's pass begins with the task whose delivery
\* failed in its previous pass, which went on to deliver another task
C22_Witness ==
    /\ pc["sched"] = "s_send"
    /\ idx["sched"] = 1
    /\ due["sched"][1] \in C22_Failed(lastPass)
    /\ lastPass.ok # {}
    /\ lastPass.calls[1][3] = "False"

\* the tasks a pass called send_reminder for
C23_Attempted(calls) == {c[2] : c \in {d \in Range(calls) : d[1] = "send_reminder"}}

\* C23: an error raised while a pass processes one task is caught: the
\* pass still calls send_reminder for every other task of its list, and the
\* scan function returns instead of raising.
C23_ErrorsCaught ==
    (out # None /\ inp.configured) =>
        /\ ~out[1].sched.raised
        /\ ~out[1].manual.raised
        /\ C23_Attempted(out[1].sched.calls) = Range(inp.list)
        /\ C23_Attempted(out[1].manual.calls) = Range(inp.list)

\* C23 witness: send_reminder raised for the first task of a pass, and the
\* pass went on to deliver the second
C23_Witness ==
    /\ out # None
    /\ inp.configured
    /\ Len(inp.list) = 2
    /\ inp.list[1] # inp.list[2]
    /\ inp.snd[inp.list[1]] = "raise"
    /\ <<"send_reminder", inp.list[2], "True">> \in Range(out[1].sched.calls)

\* the number of send_reminder calls a pass made for task i
C24_SendCalls(calls, i) ==
    Cardinality({k \in DOMAIN calls : calls[k][1] = "send_reminder" /\ calls[k][2] = i})

\* C24: a pass calls send_reminder at most once for every task id, also when
\* the list it was given names the id more than once and also when the call
\* failed.
C24_OncePerTaskInPass ==
    out # None =>
        \A i \in Ids :
            /\ C24_SendCalls(out[1].sched.calls, i) <= 1
            /\ C24_SendCalls(out[1].manual.calls, i) <= 1

\* C24 witness: a pass was given a list that names a task twice, and
\* send_reminder failed for that task
C24_Witness ==
    /\ out # None
    /\ inp.configured
    /\ inp.list \in RepeatedLists
    /\ \E j, k \in DOMAIN inp.list :
          /\ j < k
          /\ inp.list[j] = inp.list[k]
          /\ inp.snd[inp.list[j]] = "False"
          /\ C24_SendCalls(out[1].sched.calls, inp.list[j]) = 1

\* the position in a pass's calls of the successful send_reminder call for
\* task i, 0 when there is none
C25_DeliveredAt(calls, i) ==
    IF \E k \in DOMAIN calls : calls[k] = <<"send_reminder", i, "True">>
    THEN CHOOSE k \in DOMAIN calls : calls[k] = <<"send_reminder", i, "True">>
    ELSE 0

\* C25: in a pass over the list get_overdue_tasks returned, of two tasks
\* delivered in the pass the one with the strictly earlier due instant is
\* delivered first.
C25_DeliveredInDueOrder ==
    (out # None /\ inp.list \in OverdueLists(inp.rows, inp.now, hostOffset)) =>
        \A a, b \in Ids :
            /\ (/\ C25_DeliveredAt(out[1].sched.calls, a) > 0
                /\ C25_DeliveredAt(out[1].sched.calls, b) > 0
                /\ inp.rows[a].due_date.wall < inp.rows[b].due_date.wall) =>
                   C25_DeliveredAt(out[1].sched.calls, a) < C25_DeliveredAt(out[1].sched.calls, b)
            /\ (/\ C25_DeliveredAt(out[1].manual.calls, a) > 0
                /\ C25_DeliveredAt(out[1].manual.calls, b) > 0
                /\ inp.rows[a].due_date.wall < inp.rows[b].due_date.wall) =>
                   C25_DeliveredAt(out[1].manual.calls, a) < C25_DeliveredAt(out[1].manual.calls, b)

\* C25 witness: a pass delivered task 2 and then task 1, task 2 being due
\* before task 1
C25_Witness ==
    /\ out # None
    /\ inp.list = <<2, 1>>
    /\ inp.list \in OverdueLists(inp.rows, inp.now, hostOffset)
    /\ inp.rows[2].due_date.wall < inp.rows[1].due_date.wall
    /\ C25_DeliveredAt(out[1].sched.calls, 2) = 1
    /\ C25_DeliveredAt(out[1].sched.calls, 1) > 1

\* the pass record of the scheduler thread after a step of its pass: the
\* running pass, or the finished one when the step ended it
C26_PassAfter == IF due'["sched"] = <<>> THEN lastPass' ELSE pass'["sched"]

\* C26: when send_reminder has succeeded for a task and complete_task then
\* changes nothing because the user completed or deleted the task after the
\* pass had read its list (and not because of a storage error), the pass
\* counts the task as delivered, writes nothing to the store, raises nothing
\* and goes on with its list.
C26_NoOpCompleteIsSuccess ==
    [][(/\ CompleteTaskUpdate("sched")
        /\ InScan("sched")
        /\ arg["sched"] \in byUser
        /\ StateOf(tasks, arg["sched"]) # "pending"
        /\ arg["sched"] \notin C26_PassAfter.lost) =>
            /\ tasks' = tasks
            /\ sent["sched"] = Cardinality(pass["sched"].ok)
            /\ arg["sched"] \in C26_PassAfter.ok
            /\ C26_PassAfter.calls[Len(C26_PassAfter.calls)] =
                  <<"complete_task", arg["sched"], "False">>
            /\ C26_PassAfter.calls[Len(C26_PassAfter.calls) - 1] =
                  <<"send_reminder", arg["sched"], "True">>
            /\ IF idx["sched"] < Len(due["sched"])
               THEN /\ pc'["sched"] = "s_send"
                    /\ due'["sched"] = due["sched"]
                    /\ idx'["sched"] = idx["sched"] + 1
               ELSE pc'["sched"] = "idle"]_vars

\* C26 witness: a finished pass delivered a task the user had completed in
\* between, got False from complete_task for it and went on to deliver and
\* complete a second task
C26_Witness ==
    /\ Len(lastPass.calls) = 4
    /\ lastPass.calls[2][1] = "complete_task"
    /\ lastPass.calls[2][3] = "False"
    /\ lastPass.calls[2][2] \in byUser
    /\ lastPass.calls[2][2] \in lastPass.ok
    /\ StateOf(tasks, lastPass.calls[2][2]) = "completed"
    /\ lastPass.calls[4][3] = "True"

\* C27: a scan whose reference time is not strictly after a task's due
\* instant (before it, or exactly at it) does not list the task and makes no
\* send_reminder call for it; a scan strictly after the due instant lists
\* the pending task, calls send_reminder for it and, when that succeeds,
\* goes on to complete_task for it.
C27_DueStrictlyBeforeScan ==
    /\ [][(last'.m = "get_overdue_tasks" /\ ~last'.err) =>
            \A i \in DOMAIN tasks :
                (~tasks[i].completed /\ tasks[i].due_ts # None) =>
                    (tasks[i].due_ts[1] < now <=> i \in Range(last'.ret))]_vars
    /\ [][\A t \in Threads :
            (ScanSendOk(t) \/ ScanSendFail(t)) =>
                (due[t][idx[t]] \in DOMAIN tasks =>
                    tasks[due[t][idx[t]]].due_ts[1] < now)]_vars
    /\ [][\A t \in Threads :
            (ScanSendOk(t) /\ delivered' # delivered) =>
                (pc'[t] = "c_update" /\ arg'[t] = due[t][idx[t]])]_vars

\* the number of send_reminder calls of a pass that returned True
C28_Delivered(calls) ==
    Cardinality({k \in DOMAIN calls : calls[k][1] = "send_reminder" /\ calls[k][3] = "True"})

C29_StopObservedBetweenTicks ==
    /\ scheduler_stop ~> pc["sched"] = "stopped"
    /\ [][(pc["sched"] # "stopped" /\ pc'["sched"] = "stopped") =>
            (pc["sched"] = "idle" /\ scheduler_stop /\ ~InScan("sched"))]_vars
    /\ [][pc["sched"] = "stopped" =>
            (pc'["sched"] = "stopped" /\ due'["sched"] = <<>> /\ tasks' = tasks)]_vars

\* C29 witness: a pass delivered a reminder and completed its task,
\* stop_scheduler was called, and the loop read the Event and was left
C29_Witness ==
    /\ pc["sched"] = "stopped"
    /\ scheduler_stop
    /\ \E i \in Ids : delivered[i] > 0 /\ StateOf(tasks, i) = "completed"

\* C30: every scheduled pass that is in progress comes to its end, whatever
\* the network does: a send_reminder call returns after a bounded time also
\* when nothing answers it.
C30_PassAlwaysFinishes == InScheduledScan ~> ~InScheduledScan

\* C31: whatever the UTC offset of the host, the list a scan gets from
\* get_overdue_tasks holds exactly the pending tasks whose due instant is
\* strictly before the true current instant, in the order of their due
\* instants.
C31_OverdueByTrueInstant ==
    [][\A t \in Threads :
          ScanStart(t) =>
              /\ Range(due'[t]) =
                    {i \in DOMAIN tasks : /\ StateOf(tasks, i) = "pending"
                                          /\ tasks[i].due_ts # None
                                          /\ tasks[i].due_ts[1] < now}
              /\ \A j, k \in 1..Len(due'[t]) :
                    j < k => tasks[due'[t][j]].due_ts[1] <= tasks[due'[t][k]].due_ts[1]]_vars

\* the fallback patterns in the order the resolver is to try them
C32_ListOrder ==
    <<"in N minutes", "in N hours", "in N days", "in N seconds",
      "N minutes from now", "N hours from now", "N days from now",
      "N seconds from now", "tomorrow", "today", "next week", "next month">>
C32_Rank(pat) == CHOOSE k \in 1..Len(C32_ListOrder) : C32_ListOrder[k] = pat
\* of the patterns that match in a text, the one that comes first in the list
C32_Deciding(found) ==
    CHOOSE p \in Range(found) : \A q \in Range(found) : C32_Rank(p) <= C32_Rank(q)
C32_Numeric(pat) == C32_Rank(pat) <= 8
\* the same phrases standing in the text the other way round
C32_Reversed(found) == [k \in 1..Len(found) |-> found[Len(found) + 1 - k]]

\* C32: when dateparser reads the whole text, the result is what it read and
\* the patterns are not consulted; when it does not, the result is that of
\* the one pattern, among those matching anywhere in the text, that comes
\* first in the list: the same as for a text holding that phrase alone, the
\* same with the phrases of the text the other way round, and None when that
\* phrase cannot be read, whatever later patterns match.
C32_WholeTextThenListOrder ==
    out # None =>
        LET text == inp.text
            whole == LibParse(text.whole, RelativeBase(inp.T, inp.tz))
        IN  /\ (text.whole.kind # "raises" /\ whole # None) =>
                  out[1] = Some(UtcIso(Localize(whole[1], inp.tz)))
            /\ (text.whole.kind = "nothing" /\ text.found # <<>>) =>
                  /\ out[1] = ParseDateNlp([text EXCEPT !.found = <<C32_Deciding(text.found)>>],
                                           inp.T, inp.tz)
                  /\ out[1] = ParseDateNlp([text EXCEPT !.found = C32_Reversed(text.found)],
                                           inp.T, inp.tz)
                  /\ (C32_Numeric(C32_Deciding(text.found)) /\ text.n = TooLarge) =>
                        out[1] = None
                  /\ (~C32_Numeric(C32_Deciding(text.found)) \/ text.n # TooLarge) =>
                        out[1] # None

\* C32 witness: a text in which "tomorrow" stands before "in N days" with a
\* number too large to read was resolved, and gave no date
C32_Witness ==
    /\ out # None
    /\ inp.text.whole.kind = "nothing"
    /\ inp.text.found = <<"tomorrow", "in N days">>
    /\ inp.text.n = TooLarge
    /\ out[1] = None

\* a row with the two columns complete_task writes put back to what add_task
\* left in them
C33_CreatedFields(row) == [row EXCEPT !.completed = FALSE, !.completed_at = None]

\* C33: text, due_date, due_ts, priority and created_at of a stored task
\* never change while the task is stored; the rows of the table change only
\* in the UPDATE of complete_task, and there only the addressed row, and of
\* it only completed and completed_at; the steps of a scan pass other than
\* its complete_task leave the table as it is.
C33_CreatedFieldsImmutable ==
    /\ [][\A i \in DOMAIN tasks \cap DOMAIN tasks' :
            C33_CreatedFields(tasks'[i]) = C33_CreatedFields(tasks[i])]_vars
    /\ [][(\E i \in DOMAIN tasks \cap DOMAIN tasks' : tasks'[i] # tasks[i]) =>
            \E t \in Threads :
                /\ pc[t] = "c_update"
                /\ pc'[t] # "c_update" \/ idx'[t] # idx[t]
                /\ \A i \in (DOMAIN tasks \cap DOMAIN tasks') \ {arg[t]} :
                      tasks'[i] = tasks[i]]_vars
    /\ [][(ScanStart("sched") \/ ScanSendOk("sched") \/ ScanSendFail("sched")) =>
            tasks' = tasks]_vars

\* C33 witness: a task was created with a text, a priority and a due time,
\* and a scan pass delivered its reminder and completed it
C33_Witness ==
    \E i \in DOMAIN tasks :
        /\ tasks[i].completed
        /\ tasks[i].completed_at # None
        /\ delivered[i] > 0
        /\ tasks[i].text = "pay rent"
        /\ tasks[i].priority = "high"
        /\ tasks[i].due_ts # None

\* the tasks a pass delivered and could not complete for a storage error
C34_Lost(p) == p.ok \cap p.lost

\* C34: when send_reminder has returned True for a task and complete_task
\* then fails on a storage error, the store is left as it is and the pass
\* goes on with its list; the list the next scan reads contains the task as
\* long as it is pending, and that scan calls send_reminder for it again, so
\* that a second successful delivery of the same reminder is made.
C34_LostCompletionRedelivered ==
    /\ [][(CompleteTaskError("sched") /\ arg["sched"] \in C26_PassAfter.lost) =>
            /\ tasks' = tasks
            /\ arg["sched"] \in C26_PassAfter.ok
            /\ C26_PassAfter.calls[Len(C26_PassAfter.calls)] =
                  <<"complete_task", arg["sched"], "False">>
            /\ IF idx["sched"] < Len(due["sched"])
               THEN pc'["sched"] = "s_send" /\ idx'["sched"] = idx["sched"] + 1
               ELSE pc'["sched"] = "idle"]_vars
    /\ [][(last'.m = "get_overdue_tasks" /\ ~last'.err) =>
            \A i \in C34_Lost(lastPass) : Pending(i) => i \in Range(last'.ret)]_vars
    /\ [][(ScanSendOk("sched") /\ due["sched"][idx["sched"]] \in C34_Lost(lastPass)) =>
            delivered'[due["sched"][idx["sched"]]] = 2]_vars

\* C34 witness: the pass after one that delivered a task and lost its
\* completion has delivered the same task a second time
C34_Witness ==
    /\ pc["sched"] = "c_update"
    /\ arg["sched"] \in C34_Lost(lastPass)
    /\ Pending(arg["sched"])
    /\ delivered[arg["sched"]] = 2

\* the loop threads that are alive
C35_AliveLoops == {k \in LoopIds : loop[k] \in Alive}

\* C35: at most one loop thread is alive at any time, whatever calls of
\* start_scheduler and stop_scheduler are made and however they overlap.
C35_AtMostOneLoop == Cardinality(C35_AliveLoops) <= 1

\* C36: when start_scheduler was the last of the two calls to return, a loop
\* thread is alive and the stop Event is clear, so that the loop goes on
\* scanning; also when the call came right after a stop_scheduler.
C36_StartedMeansRunning ==
    lastCall = "start" => (~scheduler_stop /\ \E k \in LoopIds : loop[k] \in Alive)

\* C37: the schedule module holds at most one scan job, and the scan runs
\* at most once in a ten-second period, however often the scheduler was
\* stopped and started again.
C37_OneJobRegistered == jobs <= 1 /\ ran <= 1

\* C38: with a sender that is not configured, the scheduled scan and the
\* manual trigger do not call get_overdue_tasks, send_reminder or
\* complete_task and leave every row of the store as it is; the manual
\* trigger returns 0.
C38_UnconfiguredDoesNothing ==
    (out # None /\ ~inp.configured) =>
        /\ ~out[1].sched.queried
        /\ ~out[1].manual.queried
        /\ out[1].sched.calls = <<>>
        /\ out[1].manual.calls = <<>>
        /\ out[1].sched.rows = inp.rows
        /\ out[1].manual.rows = inp.rows
        /\ out[1].sched.ret = "None"
        /\ out[1].manual.ret = 0

\* C38 witness: both scans were run with an unconfigured sender on a store
\* holding an overdue task that a configured sender would have delivered
C38_Witness ==
    /\ out # None
    /\ ~inp.configured
    /\ inp.list # <<>>
    /\ \A k \in 1..Len(inp.list) :
          /\ inp.list[k] \in DOMAIN inp.rows
          /\ ~inp.rows[inp.list[k]].completed
          /\ inp.snd[inp.list[k]] = "True"
    /\ \A i \in DOMAIN out[1].manual.rows : ~out[1].manual.rows[i].completed

\* C39: for every stored task, due_ts is null exactly when due_date is null,
\* so a task created with a due date always carries an instant the overdue
\* query can compare
C39_DueTsIffDueDate ==
    \A i \in DOMAIN tasks :
        (tasks[i].due_ts = None) <=> (tasks[i].due_date.kind = "none")

\* every complete_task call in the calls of a pass directly follows a
\* send_reminder call for the same task that returned True, and names a task
\* of the list the pass was given
C40_AfterDelivery(calls, list) ==
    \A k \in DOMAIN calls :
        calls[k][1] = "complete_task" =>
            /\ k > 1
            /\ calls[k - 1][1] = "send_reminder"
            /\ calls[k - 1][2] = calls[k][2]
            /\ calls[k - 1][3] = "True"
            /\ calls[k][2] \in Range(list)

\* the tasks whose row a pass changed
C40_Changed(before, after) == {i \in DOMAIN before : after[i] # before[i]}

\* C40: a scan pass calls complete_task for a task only after Delivery
\* reported success for that task in that pass; no task is marked completed
\* by a pass without a successful delivery, and no task outside the pass's
\* own overdue list is completed.
C40_CompleteOnlyAfterDelivery ==
    out # None =>
        /\ C40_AfterDelivery(out[1].sched.calls, inp.list)
        /\ C40_AfterDelivery(out[1].manual.calls, inp.list)
        /\ \A i \in C40_Changed(inp.rows, out[1].sched.rows) :
              C25_DeliveredAt(out[1].sched.calls, i) > 0 /\ i \in Range(inp.list)
        /\ \A i \in C40_Changed(inp.rows, out[1].manual.rows) :
              C25_DeliveredAt(out[1].manual.calls, i) > 0 /\ i \in Range(inp.list)

\* C40 witness: a pass over two overdue tasks delivered one, which it
\* completed, and failed to deliver the other, which it left alone
C40_Witness ==
    /\ out # None
    /\ inp.configured
    /\ inp.list = <<1, 2>>
    /\ inp.snd[1] = "True" /\ inp.cmp[1] = "ok"
    /\ inp.snd[2] = "False"
    /\ C40_Changed(inp.rows, out[1].sched.rows) = {1}
    /\ C40_Changed(inp.rows, out[1].manual.rows) = {1}
    /\ Len(out[1].sched.calls) = 3

====
